---- MODULE Spec2Model ----
(***************************************************************************)
(* State-machine model of the lenr.academy database scripts:               *)
(*   scripts/rebuild_db.py        full-mode rebuild of public/parkhomov.db *)
(*   scripts/create_db.py         bootstrap-mode build of the same store   *)
(*   scripts/verify_db.py         integrity checks on the store            *)
(*   scripts/parse_html_tables.py HTML fragments -> intermediate CSV       *)
(* The store is a record: which relations exist (and with which schema),   *)
(* their rows in insertion order, the index names and the view names.      *)
(* A row is a sequence of cells; a cell is a string; None is SQL NULL.     *)
(***************************************************************************)
EXTENDS Integers, Sequences, FiniteSets, TLC

\* ------------------------------------------------------------------ bounds
MaxRuns == 2        \* how many times the operator invokes a script
MaxRows == 2        \* data rows of a generated CSV file
MaxFiles == 3       \* HTML fragment files matched by a glob pattern

VARIABLES
    csv,        \* the CSV files under src/data: path -> [exists, lines]
    disk,       \* committed content of public/parkhomov.db
    conn,       \* the content seen through the open connection
    pc,         \* rebuild_db.main: index of the next step of MainSteps
    loadIdx,    \* rebuild_db.main: how many tables of TABLES are loaded
    log,        \* rebuild_db.main: phases completed in the current run
    run,        \* number of runs of rebuild_db.main started so far
    err,        \* exception that ended the current run, "none" if none
    reported,   \* rebuild_db.verify_database: row count printed per table
    first,      \* the store left by the first completed run
    firstRun,   \* the number of that run, 0 while no run has completed
    imported,   \* rebuild_db.import_csv: rows_imported printed per table
    bpc,        \* create_db.main: index of the next step of BootSteps
    printed,    \* create_db: the count each loader printed, "" if none yet
    vdone,      \* verify_db.verify_database: checks completed, -1 if not run
    verr,       \* verify_db.verify_database: the exception that ended it
    vreport,    \* verify_db.verify_database: what checks 1, 6 and 7 printed
    frags,      \* the HTML files under crawl/: file key -> content
    ppc,        \* parse_html_tables: position in main / parse_multi_file_table
    files,      \* parse_multi_file_table: sorted(glob.glob(pattern))
    pidx,       \* parse_multi_file_table: index of the file parsed next
    allHeaders, \* parse_multi_file_table: all_headers
    allRows,    \* parse_multi_file_table: all_rows
    rowSrc,     \* for each row of all_rows, the key of the file it came from
    warned,     \* keys of the files a header-mismatch warning was printed for
    wrote,      \* whether main called write_csv for the merged table
    xls,        \* docs/FusFis.xlsx: sheet name -> physical rows
    xpc,        \* extract_data.main: number of steps done
    cpc,        \* convert_excel_to_sql.main: number of steps done
    frames,     \* the data frames the extractors returned
    sql         \* src/data/parkhomov_data.sql

rebuildVars == <<csv, disk, conn, pc, loadIdx, log, run, err, reported, first, firstRun>>

bootVars == <<bpc, printed>>

verifyVars == <<vdone, verr, vreport>>

parseVars == <<frags, ppc, files, pidx, allHeaders, allRows, rowSrc, warned, wrote>>

extractVars == <<xls, xpc, cpc, frames, sql>>

vars == <<csv, disk, conn, pc, loadIdx, log, run, err, reported, first, firstRun,
          imported, bpc, printed, vdone, verr, vreport, parseVars, extractVars>>

\* ------------------------------------------------------------ cell values
None == "<None>"
Numerals ==
    <<"1", "2", "3", "4", "5", "6", "7", "8", "9", "10", "11", "12", "13", "14",
      "15", "16", "17", "18", "19", "20">>
IsInt(s) == \E i \in 1..Len(Numerals) : Numerals[i] = s
NumVal(s) == CHOOSE i \in 1..Len(Numerals) : Numerals[i] = s
SymPool == <<"H", "D", "He">>

\* ------------------------------------------------------- rebuild_db.TABLES
TableOrder ==
    <<"FusionAll", "FissionAll", "TwoToTwoAll", "NuclidesPlus",
      "ElementPropertiesPlus", "AtomicRadii", "RadioNuclides">>

TableSet == {TableOrder[i] : i \in 1..Len(TableOrder)}

TableIndex(t) == CHOOSE i \in 1..Len(TableOrder) : TableOrder[i] = t

CsvPath(t) ==
    CASE t = "FusionAll" -> "src/data/fusion_all.csv"
      [] t = "FissionAll" -> "src/data/fission_all.csv"
      [] t = "TwoToTwoAll" -> "src/data/twotwo_all.csv"
      [] t = "NuclidesPlus" -> "src/data/nuclides_plus.csv"
      [] t = "ElementPropertiesPlus" -> "src/data/element_properties_plus.csv"
      [] t = "AtomicRadii" -> "src/data/atomic_radii.csv"
      [] t = "RadioNuclides" -> "src/data/radionuclides.csv"

FullColumns(t) ==
    CASE t = "FusionAll" ->
         <<<<"id","I">>, <<"neutrino","T">>, <<"id_sub","I">>, <<"E1","T">>, <<"A1","I">>, <<"nBorF1","T">>, <<"Z1","I">>, <<"aBorF1","T">>, <<"E2","T">>, <<"A2","I">>, <<"nBorF2","T">>, <<"Z2","I">>, <<"aBorF2","T">>, <<"E","T">>, <<"A","I">>, <<"nBorF","T">>, <<"Z","I">>, <<"aBorF","T">>, <<"MeV","R">>>>
      [] t = "FissionAll" ->
         <<<<"id","I">>, <<"neutrino","T">>, <<"E","T">>, <<"A","I">>, <<"nBorF","T">>, <<"Z","I">>, <<"aBorF","T">>, <<"E1","T">>, <<"A1","I">>, <<"nBorF1","T">>, <<"Z1","I">>, <<"aBorF1","T">>, <<"E2","T">>, <<"A2","I">>, <<"nBorF2","T">>, <<"Z2","I">>, <<"aBorF2","T">>, <<"MeV","R">>>>
      [] t = "TwoToTwoAll" ->
         <<<<"id","I">>, <<"neutrino","T">>, <<"id_sub","I">>, <<"E1","T">>, <<"A1","I">>, <<"nBorF1","T">>, <<"Z1","I">>, <<"aBorF1","T">>, <<"E2","T">>, <<"A2","I">>, <<"nBorF2","T">>, <<"Z2","I">>, <<"aBorF2","T">>, <<"E3","T">>, <<"A3","I">>, <<"nBorF3","T">>, <<"Z3","I">>, <<"aBorF3","T">>, <<"E4","T">>, <<"A4","I">>, <<"nBorF4","T">>, <<"Z4","I">>, <<"aBorF4","T">>, <<"MeV","R">>>>
      [] t = "NuclidesPlus" ->
         <<<<"id","I">>, <<"A","I">>, <<"Z","I">>, <<"nBorF","T">>, <<"aBorF","T">>, <<"E","T">>, <<"AMU","R">>, <<"BE","R">>, <<"BEN","R">>, <<"SUS","T">>, <<"LHL","T">>, <<"RDM","T">>, <<"DEMeV","R">>, <<"pcaNCrust","R">>, <<"ppmNCrust","R">>, <<"ppmNSolar","R">>, <<"SP","T">>, <<"MD","T">>, <<"EQ","T">>, <<"RCPT","T">>, <<"Inova_MHz","R">>, <<"MagGR","R">>>>
      [] t = "ElementPropertiesPlus" ->
         <<<<"Z","I">>, <<"E","T">>, <<"EName","T">>, <<"P","I">>, <<"G","I">>, <<"AWeight","R">>, <<"ARadius","R">>, <<"MolarVol","R">>, <<"Melting","R">>, <<"Boiling","R">>, <<"Negativity","R">>, <<"Affinity","R">>, <<"Val","T">>, <<"MxInum","I">>, <<"MxInize","R">>, <<"STPDensity","R">>, <<"ElectG","R">>, <<"ThermG","R">>, <<"SpecHeat","R">>, <<"ppmECrust","R">>, <<"ppmEStellar","R">>, <<"MagType","T">>, <<"CuriePtK","R">>, <<"MagVolSus","R">>>>
      [] t = "AtomicRadii" ->
         <<<<"Z","I">>, <<"E","T">>, <<"EName","T">>, <<"AtRadEmpirical","R">>, <<"AtRadCalculated","R">>, <<"AtRadVanDerWaals","R">>, <<"AtRadCovalent","R">>>>
      [] t = "RadioNuclides" ->
         <<<<"id","I">>, <<"A","I">>, <<"E","T">>, <<"Z","I">>, <<"RDM","T">>, <<"HL","R">>, <<"Units","T">>, <<"LHL","R">>, <<"RT","T">>, <<"DEKeV","R">>, <<"RI","R">>>>

\* --------------------------------------------- create_db.create_tables DDL
BootTableOrder ==
    <<"ElementsPlus", "NuclidesPlus", "FusionAll", "FissionAll", "TwoToTwoAll">>

BootTableSet == {BootTableOrder[i] : i \in 1..Len(BootTableOrder)}

BootColumns(t) ==
    CASE t = "ElementsPlus" ->
         <<<<"Z","I">>, <<"E","T">>, <<"EName","T">>, <<"Period","I">>, <<"Group","I">>, <<"AWeight","R">>, <<"ARadius","I">>, <<"MolarVolume","R">>, <<"Melting","R">>, <<"Boiling","R">>, <<"Negativity","R">>, <<"Affinity","R">>, <<"Valence","I">>, <<"MaxIonNum","I">>, <<"MaxIonization","R">>, <<"STPDensity","R">>, <<"ElectConduct","R">>, <<"ThermConduct","R">>, <<"SpecHeat","R">>, <<"MagType","T">>>>
      [] t = "NuclidesPlus" ->
         <<<<"id","I">>, <<"Z","I">>, <<"A","I">>, <<"E","T">>, <<"BE","R">>, <<"AMU","R">>, <<"nBorF","T">>, <<"aBorF","T">>, <<"LHL","R">>>>
      [] t = "FusionAll" ->
         <<<<"id","I">>, <<"E1","T">>, <<"Z1","I">>, <<"A1","I">>, <<"E2","T">>, <<"Z2","I">>, <<"A2","I">>, <<"E","T">>, <<"Z","I">>, <<"A","I">>, <<"MeV","R">>, <<"neutrino","T">>, <<"nBorF1","T">>, <<"aBorF1","T">>, <<"nBorF2","T">>, <<"aBorF2","T">>, <<"nBorF","T">>, <<"aBorF","T">>, <<"BEin","R">>>>
      [] t = "FissionAll" ->
         <<<<"id","I">>, <<"E","T">>, <<"Z","I">>, <<"A","I">>, <<"E1","T">>, <<"Z1","I">>, <<"A1","I">>, <<"E2","T">>, <<"Z2","I">>, <<"A2","I">>, <<"MeV","R">>, <<"neutrino","T">>, <<"nBorF","T">>, <<"aBorF","T">>, <<"nBorF1","T">>, <<"aBorF1","T">>, <<"nBorF2","T">>, <<"aBorF2","T">>, <<"BEin","R">>>>
      [] t = "TwoToTwoAll" ->
         <<<<"id","I">>, <<"E1","T">>, <<"Z1","I">>, <<"A1","I">>, <<"E2","T">>, <<"Z2","I">>, <<"A2","I">>, <<"E3","T">>, <<"Z3","I">>, <<"A3","I">>, <<"E4","T">>, <<"Z4","I">>, <<"A4","I">>, <<"MeV","R">>, <<"neutrino","T">>, <<"nBorF1","T">>, <<"aBorF1","T">>, <<"nBorF2","T">>, <<"aBorF2","T">>, <<"nBorF3","T">>, <<"aBorF3","T">>, <<"nBorF4","T">>, <<"aBorF4","T">>, <<"BEin","R">>>>
      [] OTHER -> <<>>

\* ------------------------------------------------------------- the store
Names == TableSet \cup BootTableSet

\* The columns of relation t when it was created by schema mode m
\* ("full": rebuild_db, "boot": create_db, "none": no such table).
Columns(m, t) ==
    IF m = "full" /\ t \in TableSet THEN FullColumns(t)
    ELSE IF m = "boot" /\ t \in BootTableSet THEN BootColumns(t)
    ELSE <<>>

ColNames(m, t) == [i \in 1..Len(Columns(m, t)) |-> Columns(m, t)[i][1]]

ColNameSet(m, t) == {Columns(m, t)[i][1] : i \in 1..Len(Columns(m, t))}

\* No file at DB_PATH (and what a connection to a new file shows).
Absent ==
    [exists |-> FALSE,
     schema |-> [n \in Names |-> "none"],
     rows |-> [n \in Names |-> <<>>],
     indexes |-> {},
     views |-> {}]

NameExists(s, n) == s.schema[n] # "none" \/ n \in s.views

\* The index definitions of rebuild_db.create_indexes: <<name, table, column>>.
IndexDefs ==
    <<<<"idx_fusionall_e1", "FusionAll", "E1">>,
      <<"idx_fusionall_e2", "FusionAll", "E2">>,
      <<"idx_fusionall_e", "FusionAll", "E">>,
      <<"idx_fusionall_neutrino", "FusionAll", "neutrino">>,
      <<"idx_fissionall_e", "FissionAll", "E">>,
      <<"idx_fissionall_e1", "FissionAll", "E1">>,
      <<"idx_fissionall_e2", "FissionAll", "E2">>,
      <<"idx_fissionall_neutrino", "FissionAll", "neutrino">>,
      <<"idx_twotwoall_e1", "TwoToTwoAll", "E1">>,
      <<"idx_twotwoall_e2", "TwoToTwoAll", "E2">>,
      <<"idx_twotwoall_e3", "TwoToTwoAll", "E3">>,
      <<"idx_twotwoall_e4", "TwoToTwoAll", "E4">>,
      <<"idx_twotwoall_neutrino", "TwoToTwoAll", "neutrino">>,
      <<"idx_nuclidesplus_e", "NuclidesPlus", "E">>,
      <<"idx_elementpropertiesplus_e", "ElementPropertiesPlus", "E">>>>

IndexNames == {IndexDefs[i][1] : i \in 1..Len(IndexDefs)}

\* The index definitions of create_db.create_tables.
BootIndexDefs ==
    <<<<"idx_fusion_e1", "FusionAll", "E1">>,
      <<"idx_fusion_e2", "FusionAll", "E2">>,
      <<"idx_fusion_mev", "FusionAll", "MeV">>,
      <<"idx_fission_e", "FissionAll", "E">>,
      <<"idx_fission_mev", "FissionAll", "MeV">>,
      <<"idx_twotwo_e1", "TwoToTwoAll", "E1">>,
      <<"idx_twotwo_e2", "TwoToTwoAll", "E2">>,
      <<"idx_twotwo_mev", "TwoToTwoAll", "MeV">>>>

BootIndexNames == {BootIndexDefs[i][1] : i \in 1..Len(BootIndexDefs)}

\* ------------------------------------------------------- generated inputs
ECols == {"E", "E1", "E2", "E3", "E4"}

\* The text of the k-th sample row in column col.
CellFor(col, k) ==
    IF col[1] \in ECols THEN SymPool[((k - 1) % Len(SymPool)) + 1]
    ELSE IF col[1] = "neutrino" THEN "none"
    ELSE IF col[1] = "MeV" THEN "1.5"
    ELSE IF col[2] = "I" THEN Numerals[k]
    ELSE IF col[2] = "R" THEN ""
    ELSE "b"

GoodRow(t, k) == [i \in 1..Len(FullColumns(t)) |-> CellFor(FullColumns(t)[i], k)]

GoodLines(t, n) == <<ColNames("full", t)>> \o [k \in 1..n |-> GoodRow(t, k)]

AtLeastOne(n) == IF n = 0 THEN 1 ELSE n

DevKinds ==
    {"missing", "empty_file", "dup_key", "short_row", "blank_line",
     "wide_header", "null_key", "bad_key", "bad_number", "fraction", "null_mev",
     "cyrillic_en", "cyrillic_es", "asterisk"}

\* The first column after the key whose declared type is one of types, or 0.
NumericColumn(t, types) ==
    LET is == {i \in 2..Len(FullColumns(t)) : FullColumns(t)[i][2] \in types}
    IN IF is = {} THEN 0 ELSE CHOOSE i \in is : \A j \in is : i <= j

\* The position of the first element-symbol column of table t.
SymbolColumn(t) ==
    CHOOSE i \in 1..Len(FullColumns(t)) :
       /\ FullColumns(t)[i][1] \in {"E", "E1", "E2", "E3", "E4"}
       /\ \A j \in 1..(i - 1) : FullColumns(t)[j][1] \notin {"E", "E1", "E2", "E3", "E4"}

\* The position of column MeV in table t, or 0.
MeVColumn(t) ==
    LET is == {i \in 1..Len(FullColumns(t)) : FullColumns(t)[i][1] = "MeV"}
    IN IF is = {} THEN 0 ELSE CHOOSE i \in is : TRUE

\* Row with the cell at position i replaced by v; unchanged when i = 0.
WithCell(row, i, v) == [j \in 1..Len(row) |-> IF j = i THEN v ELSE row[j]]

\* A CSV file for table t with n well-formed data rows and one defect.
Deviant(t, kind, n) ==
    LET m == AtLeastOne(n)
        extra == GoodRow(t, m + 1)
    IN CASE kind = "missing" -> [exists |-> FALSE, lines |-> <<>>]
         [] kind = "empty_file" -> [exists |-> TRUE, lines |-> <<>>]
         [] kind = "dup_key" ->
              [exists |-> TRUE, lines |-> Append(GoodLines(t, m), GoodRow(t, 1))]
         [] kind = "short_row" ->
              [exists |-> TRUE,
               lines |-> Append(GoodLines(t, m), SubSeq(extra, 1, Len(extra) - 1))]
         [] kind = "blank_line" ->
              [exists |-> TRUE, lines |-> Append(GoodLines(t, m), <<>>)]
         [] kind = "wide_header" ->
              [exists |-> TRUE,
               lines |-> <<Append(ColNames("full", t), "extra")>>
                         \o [k \in 1..n |-> GoodRow(t, k)]]
         [] kind = "null_key" ->
              [exists |-> TRUE,
               lines |-> Append(GoodLines(t, n), [GoodRow(t, n + 1) EXCEPT ![1] = ""])]
         [] kind = "bad_key" ->
              [exists |-> TRUE,
               lines |-> Append(GoodLines(t, m), [extra EXCEPT ![1] = "x"])]
         [] kind = "bad_number" ->
              [exists |-> TRUE,
               lines |-> Append(GoodLines(t, m),
                                WithCell(extra, NumericColumn(t, {"I", "R"}), "x"))]
         [] kind = "fraction" ->
              [exists |-> TRUE,
               lines |-> Append(GoodLines(t, m),
                                WithCell(extra, NumericColumn(t, {"I"}), "1.7"))]
         [] kind = "cyrillic_en" ->
              [exists |-> TRUE,
               lines |-> Append(GoodLines(t, n), WithCell(GoodRow(t, n + 1), SymbolColumn(t), "U+041D"))]
         [] kind = "cyrillic_es" ->
              [exists |-> TRUE,
               lines |-> Append(GoodLines(t, n), WithCell(GoodRow(t, n + 1), SymbolColumn(t), "U+0421"))]
         [] kind = "asterisk" ->
              [exists |-> TRUE,
               lines |-> Append(GoodLines(t, n), WithCell(GoodRow(t, n + 1), SymbolColumn(t), "H*"))]
         [] kind = "null_mev" ->
              [exists |-> TRUE,
               lines |-> Append(GoodLines(t, n), WithCell(GoodRow(t, n + 1), MeVColumn(t), ""))]

NoFile == [exists |-> FALSE, lines |-> <<>>]

DataRows(f) == IF f.lines = <<>> THEN 0 ELSE Len(f.lines) - 1

RebuildPaths == {CsvPath(t) : t \in TableSet}

BootPaths == {"src/data/fusion.csv", "src/data/fission.csv", "src/data/twotwo.csv"}

Paths == RebuildPaths \cup BootPaths

TableOfPath(p) == CHOOSE t \in TableSet : CsvPath(t) = p

\* Row counts differ from table to table.
NRows(n, t) == (n + TableIndex(t)) % (MaxRows + 1)

\* A complete store left by an earlier rebuild from other CSV files.
OldFull ==
    [exists |-> TRUE,
     schema |-> [n \in Names |-> IF n \in TableSet THEN "full" ELSE "none"],
     rows |-> [n \in Names |->
                 IF n \in TableSet THEN <<[GoodRow(n, 1) EXCEPT ![1] = "9"]>> ELSE <<>>],
     indexes |-> IndexNames,
     views |-> {"ElementsPlus"}]

\* A store left by an earlier bootstrap build.
OldBoot ==
    [exists |-> TRUE,
     schema |-> [n \in Names |-> IF n \in BootTableSet THEN "boot" ELSE "none"],
     rows |-> [n \in Names |-> <<>>],
     indexes |-> BootIndexNames,
     views |-> {}]

PriorStores == {Absent, OldFull, OldBoot}

\* ----------------------------------------- parse_html_tables: operations
\* The varying part of the paths crawl/two_to_two_all_table_<n>.html, as
\* digit sequences: 1, 2, 10, 3.
FileKeyPool == <<<<1>>, <<2>>, <<1, 0>>, <<3>>, <<2, 0>>>>

FileKeys == {FileKeyPool[i] : i \in 1..MaxFiles}

KeyIndex(k) == CHOOSE i \in 1..Len(FileKeyPool) : FileKeyPool[i] = k

\* String order of two such paths: digit by digit, and a path that is a
\* prefix of the other comes first ("." sorts before every digit).
LexLess(a, b) ==
    \E i \in 1..(Len(a) + 1) :
       /\ \A j \in 1..(i - 1) : j <= Len(b) /\ a[j] = b[j]
       /\ \/ i = Len(a) + 1 /\ Len(b) > Len(a)
          \/ i <= Len(a) /\ i <= Len(b) /\ a[i] < b[i]

\* Variant: the files in the order of their numbers.
SortedKeysNumeric(S) ==
    CHOOSE q \in [1..Cardinality(S) -> S] :
       \A i, j \in 1..Cardinality(S) :
          i < j => (Len(q[i]) < Len(q[j]) \/ (Len(q[i]) = Len(q[j]) /\ LexLess(q[i], q[j])))

\* sorted(glob.glob(pattern)).
SortedKeys(S) ==
    CHOOSE q \in [1..Cardinality(S) -> S] :
       \A i, j \in 1..Cardinality(S) : i < j => LexLess(q[i], q[j])

NoFragment == [matched |-> FALSE, table |-> FALSE, trs |-> <<>>]

NoHeaders == [isNone |-> TRUE, v |-> <<>>]

\* get_text(strip=True): surrounding whitespace is removed.
Strip(v) ==
    CASE v = " H " -> "H"
      [] v = " D " -> "D"
      [] v = " b " -> "b"
      [] OTHER -> v

\* parse_html_table: (None, None) without a results table or without rows;
\* else the cells of the first row as headers and, of the later rows, those
\* that have cells.
ParseHtmlTable(f) ==
    IF ~f.table \/ f.trs = <<>> THEN [isNone |-> TRUE, headers |-> <<>>, rows |-> <<>>]
    ELSE [isNone |-> FALSE,
          headers |-> [i \in 1..Len(Head(f.trs)) |-> Strip(Head(f.trs)[i])],
          rows |-> LET withCells == SelectSeq(Tail(f.trs), LAMBDA r : r # <<>>)
                   IN [k \in 1..Len(withCells) |->
                         [i \in 1..Len(withCells[k]) |-> Strip(withCells[k][i])]]]

\* Variant of the loop body: a file whose header differs is skipped.
MergeFileSkipMismatch(acc, key, parsed) ==
    IF parsed.isNone THEN acc
    ELSE IF ~acc.headers.isNone /\ acc.headers.v # parsed.headers
    THEN [acc EXCEPT !.warned = @ \cup {key}]
    ELSE [headers |-> [isNone |-> FALSE, v |-> parsed.headers],
          rows |-> acc.rows \o parsed.rows,
          src |-> acc.src \o [i \in 1..Len(parsed.rows) |-> key],
          warned |-> acc.warned]

\* Variant of the loop body: no warning on a header mismatch.
MergeFileNoWarning(acc, key, parsed) ==
    IF parsed.isNone THEN acc
    ELSE [headers |-> IF acc.headers.isNone
                      THEN [isNone |-> FALSE, v |-> parsed.headers]
                      ELSE acc.headers,
          rows |-> acc.rows \o parsed.rows,
          src |-> acc.src \o [i \in 1..Len(parsed.rows) |-> key],
          warned |-> acc.warned]

\* parse_multi_file_table, one pass of the loop (lines 58-74): skip a file
\* without table, keep the first header found, warn when a later header
\* differs from it, and extend all_rows with the file's rows.
MergeFile(acc, key, parsed) ==
    IF parsed.isNone THEN acc
    ELSE [headers |-> IF acc.headers.isNone
                      THEN [isNone |-> FALSE, v |-> parsed.headers]
                      ELSE acc.headers,
          rows |-> acc.rows \o parsed.rows,
          src |-> acc.src \o [i \in 1..Len(parsed.rows) |-> key],
          warned |-> IF ~acc.headers.isNone /\ acc.headers.v # parsed.headers
                     THEN acc.warned \cup {key}
                     ELSE acc.warned]

\* write_csv: the header line, then one line per row.
WriteCsv(headers, rows) == [exists |-> TRUE, lines |-> <<headers>> \o rows]

\* ------------------------- extract_data, convert_excel_to_sql: operations
NaN == "<NaN>"

SheetNames == {"Fus_Fis", "2--->2"}

NoWorkbook == [n \in SheetNames |-> <<>>]

Families == {"fusion", "fission", "twotwo"}

\* The column names each extractor assigns to its slice of the sheet.
SheetColumns(fam) ==
    CASE fam = "fusion" -> <<"E1", "A1", "Z1", "E2", "A2", "Z2", "E", "A", "Z", "MeV">>
      [] fam = "fission" -> <<"E", "A", "Z", "E1", "A1", "Z1", "E2", "A2", "Z2", "MeV">>
      [] fam = "twotwo" ->
           <<"E1", "A1", "Z1", "E2", "A2", "Z2", "E3", "A3", "Z3", "E4", "A4", "Z4", "MeV">>

Extractors == {"process_fusion", "process_fission", "process_twotwo",
               "extract_fusion", "extract_fission", "extract_twotwo"}

FamilyOf(e) ==
    CASE e \in {"process_fusion", "extract_fusion"} -> "fusion"
      [] e \in {"process_fission", "extract_fission"} -> "fission"
      [] OTHER -> "twotwo"

NoFrame == [set |-> FALSE, read |-> <<>>, rows |-> <<>>]

NoFrames == [e \in Extractors |-> NoFrame]

NoLimit == -1

\* pd.read_excel(file, sheet, skiprows=k, nrows=n): the first row after the
\* skipped ones is the header line, the rows after it (at most n) are the
\* data; each keeps the number of its physical row.
ReadExcel(sheet, skiprows, nrows) ==
    LET avail == IF Len(sheet) > skiprows + 1 THEN Len(sheet) - skiprows - 1 ELSE 0
        n == IF nrows # NoLimit /\ nrows < avail THEN nrows ELSE avail
    IN [i \in 1..n |-> [line |-> skiprows + 1 + i, cells |-> sheet[skiprows + 1 + i]]]

\* df.iloc[:, a:b].
ILoc(df, a, b) == [i \in 1..Len(df) |-> [df[i] EXCEPT !.cells = SubSeq(@, a + 1, b)]]

ColumnAt(names, c) == CHOOSE i \in 1..Len(names) : names[i] = c

\* df.dropna(subset=cols).
DropNa(df, names, subset) ==
    SelectSeq(df, LAMBDA r : \A c \in subset : r.cells[ColumnAt(names, c)] # NaN)

Frame(df, names, subset) == [set |-> TRUE, read |-> df, rows |-> DropNa(df, names, subset)]

\* The subsets and slices of extract_data.
ProcessFrame(x, fam) ==
    CASE fam = "fusion" ->
           Frame(ILoc(ReadExcel(x["Fus_Fis"], 6, NoLimit), 0, 10), SheetColumns(fam), {"E1", "MeV"})
      [] fam = "fission" ->
           Frame(ILoc(ReadExcel(x["Fus_Fis"], 6, NoLimit), 12, 22), SheetColumns(fam), {"E", "MeV"})
      [] fam = "twotwo" ->
           Frame(ILoc(ReadExcel(x["2--->2"], 8, 10000), 0, 13), SheetColumns(fam), {"E1", "MeV"})

\* The subsets and slices of convert_excel_to_sql.
ExtractFrame(x, fam) ==
    CASE fam = "fusion" ->
           Frame(ILoc(ReadExcel(x["Fus_Fis"], 6, NoLimit), 0, 10), SheetColumns(fam),
                 {"E1", "E2", "E", "MeV"})
      [] fam = "fission" ->
           Frame(ILoc(ReadExcel(x["Fus_Fis"], 6, NoLimit), 12, 22), SheetColumns(fam),
                 {"E", "E1", "E2", "MeV"})
      [] fam = "twotwo" ->
           Frame(ILoc(ReadExcel(x["2--->2"], 7, NoLimit), 0, 13), SheetColumns(fam),
                 {"E1", "E2", "E3", "E4", "MeV"})

IntegerColumns == {"A", "A1", "A2", "A3", "A4", "Z", "Z1", "Z2", "Z3", "Z4"}

\* A column of whole numbers that was read with an empty cell in it is a
\* float column, and its numbers are written with a decimal point.
NumberText(fr, names, c, v) ==
    IF v = NaN THEN v
    ELSE IF /\ c \in IntegerColumns
            /\ \E i \in 1..Len(fr.read) : fr.read[i].cells[ColumnAt(names, c)] = NaN
            /\ \A i \in 1..Len(fr.read) :
                  fr.read[i].cells[ColumnAt(names, c)] \in {NaN} \cup {Numerals[n] : n \in 1..Len(Numerals)}
    THEN v \o ".0"
    ELSE v

\* df.to_csv(path, index=False): the column names, then the rows, an empty
\* cell for NaN.
ToCsv(fr, names) ==
    [exists |-> TRUE,
     lines |-> <<names>> \o
               [i \in 1..Len(fr.rows) |->
                  [j \in 1..Len(names) |->
                     LET v == NumberText(fr, names, names[j], fr.rows[i].cells[j])
                     IN IF v = NaN THEN "" ELSE v]]]

\* clean_value: NULL for NaN, a quoted string, or the number's text.
CleanValue(fr, names, c, v) ==
    IF v = NaN THEN "NULL"
    ELSE IF c \in IntegerColumns \/ c = "MeV"
    THEN (IF v \in {Numerals[n] : n \in 1..Len(Numerals)} \/ v = "1.5"
          THEN NumberText(fr, names, c, v)
          ELSE "'" \o v \o "'")
    ELSE "'" \o v \o "'"

\* The order of the values in the INSERT statements of generate_*_sql.
SqlColumns(fam) ==
    CASE fam = "fusion" -> <<"E1", "Z1", "A1", "E2", "Z2", "A2", "E", "Z", "A", "MeV">>
      [] fam = "fission" -> <<"E", "Z", "A", "E1", "Z1", "A1", "E2", "Z2", "A2", "MeV">>
      [] fam = "twotwo" ->
           <<"E1", "Z1", "A1", "E2", "Z2", "A2", "E3", "Z3", "A3", "E4", "Z4", "A4", "MeV">>

\* generate_*_sql: one value tuple per row of the frame.
GenerateSql(fr, fam) ==
    [i \in 1..Len(fr.rows) |->
       [j \in 1..Len(SqlColumns(fam)) |->
          LET c == SqlColumns(fam)[j]
          IN CleanValue(fr, SheetColumns(fam), c,
                        fr.rows[i].cells[ColumnAt(SheetColumns(fam), c)])]]

\* ------------------------------------------------- rebuild_db: operations
\* Variants of delete_database used to test the claims: one that leaves the
\* file in place, one that empties the tables but keeps the file.
DeleteDatabaseKeep(d) == d

DeleteDatabaseRowsOnly(d) == [d EXCEPT !.rows = [n \in Names |-> <<>>]]

\* delete_database: unlink the store file when it exists.
DeleteDatabase(d) == IF d.exists THEN Absent ELSE d

\* create_tables: the CREATE TABLE statements of TABLES, in order, up to the
\* k-th; a statement fails when the name is taken and the rest is not run.
RECURSIVE CreateTablesUpTo(_, _)
CreateTablesUpTo(s, k) ==
    IF k = 0 THEN [ok |-> TRUE, store |-> s]
    ELSE LET prev == CreateTablesUpTo(s, k - 1)
             t == TableOrder[k]
         IN IF ~prev.ok THEN prev
            ELSE IF NameExists(prev.store, t) THEN [ok |-> FALSE, store |-> prev.store]
            ELSE [ok |-> TRUE,
                  store |-> [prev.store EXCEPT !.schema[t] = "full", !.exists = TRUE]]

\* import_csv line 142: empty cells become None.
ConvertRow(row) == [i \in 1..Len(row) |-> IF row[i] = "" THEN None ELSE row[i]]

PkSet(rows) == {rows[i][1] : i \in 1..Len(rows)}

MaxPk(rows) ==
    IF rows = <<>> THEN 0
    ELSE CHOOSE m \in {NumVal(p) : p \in PkSet(rows)} :
            \A p \in PkSet(rows) : NumVal(p) <= m

\* Variant: INSERT OR IGNORE, a row the store rejects is dropped silently.
InsertValuesOrIgnore(rows, ncols, nph, row) ==
    IF ncols = 0 \/ nph # ncols THEN [ok |-> FALSE, rows |-> rows, err |-> "OperationalError"]
    ELSE IF Len(row) # nph THEN [ok |-> FALSE, rows |-> rows, err |-> "ProgrammingError"]
    ELSE IF row[1] = None
         THEN [ok |-> TRUE,
               rows |-> Append(rows, [row EXCEPT ![1] = Numerals[MaxPk(rows) + 1]]),
               err |-> "none"]
    ELSE IF ~IsInt(row[1]) \/ row[1] \in PkSet(rows)
         THEN [ok |-> TRUE, rows |-> rows, err |-> "none"]
    ELSE [ok |-> TRUE, rows |-> Append(rows, row), err |-> "none"]

\* cursor.execute("INSERT INTO t VALUES (?,...)", row) with nph placeholders
\* on a table of ncols columns whose first column is INTEGER PRIMARY KEY.
InsertValues(rows, ncols, nph, row) ==
    IF ncols = 0 \/ nph # ncols THEN [ok |-> FALSE, rows |-> rows, err |-> "OperationalError"]
    ELSE IF Len(row) # nph THEN [ok |-> FALSE, rows |-> rows, err |-> "ProgrammingError"]
    ELSE IF row[1] = None
         THEN [ok |-> TRUE,
               rows |-> Append(rows, [row EXCEPT ![1] = Numerals[MaxPk(rows) + 1]]),
               err |-> "none"]
    ELSE IF ~IsInt(row[1]) \/ row[1] \in PkSet(rows)
         THEN [ok |-> FALSE, rows |-> rows, err |-> "IntegrityError"]
    ELSE [ok |-> TRUE, rows |-> Append(rows, row), err |-> "none"]

RECURSIVE ImportRows(_, _, _, _, _)
ImportRows(rows, ncols, nph, data, i) ==
    IF i > Len(data) THEN [ok |-> TRUE, rows |-> rows, err |-> "none"]
    ELSE LET r == InsertValues(rows, ncols, nph, ConvertRow(data[i]))
         IN IF r.ok THEN ImportRows(r.rows, ncols, nph, data, i + 1) ELSE r

\* Variant: commit after every row, so a failing load keeps the rows before it.
ImportCsvCommitEachRow(s, t, f) ==
    IF ~f.exists THEN [ok |-> FALSE, store |-> s, count |-> 0, err |-> "FileNotFoundError"]
    ELSE IF f.lines = <<>> THEN [ok |-> FALSE, store |-> s, count |-> 0, err |-> "StopIteration"]
    ELSE LET headers == Head(f.lines)
             data == Tail(f.lines)
             r == ImportRows(s.rows[t], Len(Columns(s.schema[t], t)), Len(headers), data, 1)
         IN [ok |-> r.ok,
             store |-> [s EXCEPT !.rows[t] = r.rows, !.exists = TRUE],
             count |-> Len(r.rows), err |-> r.err]

\* import_csv: open the file, skip the header, insert every further line,
\* commit.  An exception leaves the inserts uncommitted (store unchanged).
ImportCsv(s, t, f) ==
    IF ~f.exists THEN [ok |-> FALSE, store |-> s, count |-> 0, err |-> "FileNotFoundError"]
    ELSE IF f.lines = <<>> THEN [ok |-> FALSE, store |-> s, count |-> 0, err |-> "StopIteration"]
    ELSE LET headers == Head(f.lines)
             data == Tail(f.lines)
             r == ImportRows(s.rows[t], Len(Columns(s.schema[t], t)), Len(headers), data, 1)
         IN IF r.ok
            THEN [ok |-> TRUE,
                  store |-> [s EXCEPT !.rows[t] = r.rows, !.exists = TRUE],
                  count |-> Len(data), err |-> "none"]
            ELSE [ok |-> FALSE, store |-> s, count |-> 0, err |-> r.err]

\* create_indexes: the CREATE INDEX statements in order, up to the k-th.
RECURSIVE CreateIndexesUpTo(_, _)
CreateIndexesUpTo(s, k) ==
    IF k = 0 THEN [ok |-> TRUE, store |-> s]
    ELSE LET prev == CreateIndexesUpTo(s, k - 1)
             d == IndexDefs[k]
         IN IF ~prev.ok THEN prev
            ELSE IF d[1] \in prev.store.indexes
                    \/ d[3] \notin ColNameSet(prev.store.schema[d[2]], d[2])
                 THEN [ok |-> FALSE, store |-> prev.store]
            ELSE [ok |-> TRUE,
                  store |-> [prev.store EXCEPT !.indexes = @ \cup {d[1]}, !.exists = TRUE]]

\* create_elements_plus_view: CREATE VIEW ElementsPlus.
\* Variant: the rows are moved out of ElementPropertiesPlus.
CreateElementsPlusViewMoveRows(s) ==
    IF NameExists(s, "ElementsPlus") THEN [ok |-> FALSE, store |-> s]
    ELSE [ok |-> TRUE,
          store |-> [s EXCEPT !.views = @ \cup {"ElementsPlus"}, !.exists = TRUE,
                              !.rows["ElementPropertiesPlus"] = <<>>]]

CreateElementsPlusView(s) ==
    IF NameExists(s, "ElementsPlus") THEN [ok |-> FALSE, store |-> s]
    ELSE [ok |-> TRUE, store |-> [s EXCEPT !.views = @ \cup {"ElementsPlus"}, !.exists = TRUE]]

\* rebuild_db.verify_database: SELECT COUNT(*) of every table of TABLES.
VerifyCounts(s) ==
    IF \E t \in TableSet : s.schema[t] = "none" THEN [ok |-> FALSE, counts |-> [t \in TableSet |-> -1]]
    ELSE [ok |-> TRUE, counts |-> [t \in TableSet |-> Len(s.rows[t])]]

NoReport == [t \in TableSet |-> -1]

NoVerifyReport ==
    [invalid |-> {}, elements |-> "", cyrillic_count |-> -1, cyrillic |-> "",
     asterisk_count |-> -1, asterisk |-> ""]

NoPrint == [t \in {"FusionAll", "FissionAll", "TwoToTwoAll", "ElementsPlus"} |-> ""]

\* Variant: verification called before the indexes are built.
MainStepsVerifyEarly ==
    <<"delete_database", "connect", "create_tables", "import_csv",
      "verify_database", "create_indexes", "create_elements_plus_view", "close">>

\* main: the calls it makes, in program order.
MainSteps ==
    <<"delete_database", "connect", "create_tables", "import_csv",
      "create_indexes", "create_elements_plus_view", "verify_database", "close">>

\* --------------------------------------------------- rebuild_db: actions
Cur == IF pc \in 1..Len(MainSteps) THEN MainSteps[pc] ELSE "none"

Running == pc \in 1..Len(MainSteps) /\ err = "none"

Done == pc = Len(MainSteps) + 1 /\ err = "none"

Aborted == err # "none"

\* The operator invokes `python scripts/rebuild_db.py`.
StartRun ==
    /\ pc = 0 \/ Done \/ Aborted
    /\ bpc = 0
    /\ ppc \in {"off", "finished"}
    /\ run < MaxRuns
    /\ run' = run + 1
    /\ pc' = 1
    /\ err' = "none"
    /\ log' = <<>>
    /\ loadIdx' = 0
    /\ imported' = NoReport
    /\ reported' = NoReport
    /\ conn' = Absent
    /\ vdone' = -1
    /\ verr' = "none"
    /\ vreport' = NoVerifyReport
    /\ UNCHANGED <<csv, disk, first, firstRun, bpc, printed, parseVars, extractVars>>

\* main, step 1.
StepDelete ==
    /\ Running /\ Cur = "delete_database"
    /\ disk' = DeleteDatabase(disk)
    /\ pc' = pc + 1
    /\ log' = Append(log, "delete_database")
    /\ UNCHANGED <<csv, conn, loadIdx, run, err, reported, first, firstRun,
                 imported, bpc, printed, vdone, verr, vreport, parseVars, extractVars>>

\* main, step 2: sqlite3.connect(DB_PATH).
StepConnect ==
    /\ Running /\ Cur = "connect"
    /\ conn' = disk
    /\ pc' = pc + 1
    /\ log' = Append(log, "connect")
    /\ UNCHANGED <<csv, disk, loadIdx, run, err, reported, first, firstRun,
                 imported, bpc, printed, vdone, verr, vreport, parseVars, extractVars>>

\* main, step 3.  DDL is committed statement by statement.
StepCreateTables ==
    /\ Running /\ Cur = "create_tables"
    /\ LET r == CreateTablesUpTo(conn, Len(TableOrder))
       IN /\ disk' = r.store
          /\ IF r.ok
             THEN /\ conn' = r.store
                  /\ pc' = pc + 1
                  /\ log' = Append(log, "create_tables")
                  /\ err' = "none"
             ELSE /\ conn' = Absent
                  /\ err' = "OperationalError"
                  /\ UNCHANGED <<pc, log>>
    /\ UNCHANGED <<csv, loadIdx, run, reported, first, firstRun, imported, bpc,
                 printed, vdone, verr, vreport, parseVars, extractVars>>

\* main, step 4: one pass of the loop over TABLES.items().
StepImport ==
    /\ Running /\ Cur = "import_csv"
    /\ LET t == TableOrder[loadIdx + 1]
           r == ImportCsv(conn, t, csv[CsvPath(t)])
       IN IF r.ok
          THEN /\ conn' = r.store
               /\ disk' = r.store
               /\ loadIdx' = loadIdx + 1
               /\ log' = Append(log, t)
               /\ pc' = IF loadIdx + 1 = Len(TableOrder) THEN pc + 1 ELSE pc
               /\ err' = "none"
               /\ imported' = [imported EXCEPT ![t] = r.count]
          ELSE /\ conn' = Absent
               /\ disk' = r.store
               /\ err' = r.err
               /\ UNCHANGED <<loadIdx, log, pc, imported>>
    /\ UNCHANGED <<csv, run, reported, first, firstRun, bpc, printed, vdone, verr, vreport, parseVars, extractVars>>

\* main, step 5.
StepCreateIndexes ==
    /\ Running /\ Cur = "create_indexes"
    /\ LET r == CreateIndexesUpTo(conn, Len(IndexDefs))
       IN /\ disk' = r.store
          /\ IF r.ok
             THEN /\ conn' = r.store
                  /\ pc' = pc + 1
                  /\ log' = Append(log, "create_indexes")
                  /\ err' = "none"
             ELSE /\ conn' = Absent
                  /\ err' = "OperationalError"
                  /\ UNCHANGED <<pc, log>>
    /\ UNCHANGED <<csv, loadIdx, run, reported, first, firstRun, imported, bpc,
                 printed, vdone, verr, vreport, parseVars, extractVars>>

\* main, step 6.
StepCreateView ==
    /\ Running /\ Cur = "create_elements_plus_view"
    /\ LET r == CreateElementsPlusView(conn)
       IN IF r.ok
          THEN /\ conn' = r.store
               /\ disk' = r.store
               /\ pc' = pc + 1
               /\ log' = Append(log, "create_elements_plus_view")
               /\ err' = "none"
          ELSE /\ conn' = Absent
               /\ err' = "OperationalError"
               /\ UNCHANGED <<disk, pc, log>>
    /\ UNCHANGED <<csv, loadIdx, run, reported, first, firstRun, imported, bpc,
                 printed, vdone, verr, vreport, parseVars, extractVars>>

\* main, step 7.
StepVerify ==
    /\ Running /\ Cur = "verify_database"
    /\ LET r == VerifyCounts(conn)
       IN IF r.ok
          THEN /\ reported' = r.counts
               /\ pc' = pc + 1
               /\ log' = Append(log, "verify_database")
               /\ UNCHANGED <<conn, err>>
          ELSE /\ conn' = Absent
               /\ err' = "OperationalError"
               /\ UNCHANGED <<reported, pc, log>>
    /\ UNCHANGED <<csv, disk, loadIdx, run, first, firstRun, imported, bpc,
                 printed, vdone, verr, vreport, parseVars, extractVars>>

\* main, lines 236-237: conn.close() and the completion message.
StepClose ==
    /\ Running /\ Cur = "close"
    /\ conn' = Absent
    /\ pc' = pc + 1
    /\ log' = Append(log, "close")
    /\ first' = IF firstRun = 0 THEN disk ELSE first
    /\ firstRun' = IF firstRun = 0 THEN run ELSE firstRun
    /\ UNCHANGED <<csv, disk, loadIdx, run, err, reported, imported, bpc,
                 printed, vdone, verr, vreport, parseVars, extractVars>>

\* The environment fails the statement being executed (I/O error, locked
\* file): the exception ends the run.  DDL statements already executed in
\* the current step stay committed.
Fault ==
    /\ Running /\ Cur # "close"
    /\ \E k \in 0..Len(IndexDefs) - 1 :
         /\ CASE Cur = "create_tables" ->
                   /\ k < Len(TableOrder)
                   /\ CreateTablesUpTo(conn, k).ok
                   /\ disk' = CreateTablesUpTo(conn, k).store
              [] Cur = "create_indexes" ->
                   /\ CreateIndexesUpTo(conn, k).ok
                   /\ disk' = CreateIndexesUpTo(conn, k).store
              [] OTHER -> k = 0 /\ disk' = disk
    /\ err' = "IOError"
    /\ conn' = Absent
    /\ UNCHANGED <<csv, pc, loadIdx, log, run, reported, first, firstRun,
                 imported, bpc, printed, vdone, verr, vreport, parseVars, extractVars>>


\* ------------------------------------------------ verify_db: operations
\* The relations and columns each of the seven checks of verify_database
\* names in its query ("*" stands for COUNT(*)).
VerifierNeeds ==
    <<{<<"FusionAll", "E1">>, <<"FusionAll", "E2">>, <<"FusionAll", "E">>,
       <<"ElementPropertiesPlus", "E">>},
      {<<"FusionAll", "neutrino">>},
      {<<"NuclidesPlus", "E">>},
      {<<"ElementsPlus", "*">>},
      {<<"FusionAll", "E1">>, <<"FusionAll", "A1">>, <<"FusionAll", "E2">>,
       <<"FusionAll", "A2">>, <<"FusionAll", "E">>, <<"FusionAll", "A">>,
       <<"FusionAll", "MeV">>, <<"FusionAll", "neutrino">>},
      {<<"FusionAll", "E1">>, <<"FusionAll", "E2">>, <<"FusionAll", "E">>},
      {<<"FusionAll", "E1">>, <<"FusionAll", "E2">>, <<"FusionAll", "E">>}>>

\* The columns of the ElementsPlus view (rebuild_db lines 188-192).
ViewColumns == {"Z", "E", "EName"}

\* Whether a query naming column col of relation rel can be prepared on s.
Resolves(s, rel, col) ==
    IF rel \in s.views
    THEN /\ ViewColumns \subseteq ColNameSet(s.schema["ElementPropertiesPlus"],
                                             "ElementPropertiesPlus")
         /\ col \in ViewColumns \cup {"*"}
    ELSE /\ s.schema[rel] # "none"
         /\ col = "*" \/ col \in ColNameSet(s.schema[rel], rel)

ColPos(m, t, c) == CHOOSE i \in 1..Len(Columns(m, t)) : Columns(m, t)[i][1] = c

\* The value row holds in column c of table t.
Cell(s, t, row, c) == row[ColPos(s.schema[t], t, c)]

\* Texts that Python's float() accepts: <<text, int(float(text)), float(text)>>.
FloatLex ==
    <<<<"1", "1", "1.0">>, <<"2", "2", "2.0">>, <<"3", "3", "3.0">>,
      <<"4", "4", "4.0">>, <<"1.0", "1", "1.0">>, <<"2.0", "2", "2.0">>,
      <<"1.5", "1", "1.5">>, <<"1.7", "1", "1.7">>>>

IsFloatText(v) == \E i \in 1..Len(FloatLex) : FloatLex[i][1] = v

FloatEntry(v) == FloatLex[CHOOSE i \in 1..Len(FloatLex) : FloatLex[i][1] = v]

FirstRows(rows, n) == SubSeq(rows, 1, IF Len(rows) < n THEN Len(rows) ELSE n)

\* Whether check k of verify_database runs to its end on store s: its query
\* can be prepared and (check 5) every sampled MeV formats with ":.3f".
CheckRuns(s, k) ==
    /\ \A q \in VerifierNeeds[k] : Resolves(s, q[1], q[2])
    /\ k = 5 =>
          LET sample == FirstRows(s.rows["FusionAll"], 5)
          IN \A i \in 1..Len(sample) :
                /\ Cell(s, "FusionAll", sample[i], "MeV") # None
                /\ IsFloatText(Cell(s, "FusionAll", sample[i], "MeV"))

\* verify_database: the checks run in order; the first one that raises ends
\* the script.  The result is the number of checks completed.
RECURSIVE ChecksCompleted(_, _)
ChecksCompleted(s, k) ==
    IF k > Len(VerifierNeeds) THEN Len(VerifierNeeds)
    ELSE IF CheckRuns(s, k) THEN ChecksCompleted(s, k + 1)
    ELSE k - 1

\* Cyrillic letters are written by their code points.
CyrillicEn == "U+041D"

CyrillicEnIe == "U+041D U+0435"

CyrillicEs == "U+0421"

\* Texts that match LIKE '%*%'.
HasAsterisk(v) == v \in {"H*", "*"}

RowSet(s, t) == {s.rows[t][i] : i \in 1..Len(s.rows[t])}

\* Check 1, lines 17-25: the distinct E1, E2 and E of FusionAll that are
\* NOT IN the E of ElementPropertiesPlus.  NOT IN is unknown, and the row
\* is left out, when the symbol is not found and the symbol or a listed E
\* is NULL; on an empty list it is true.
InvalidElements(s) ==
    LET syms == {Cell(s, "FusionAll", r, c) : r \in RowSet(s, "FusionAll"), c \in {"E1", "E2", "E"}}
        known == {Cell(s, "ElementPropertiesPlus", r, "E") : r \in RowSet(s, "ElementPropertiesPlus")}
    IN {e \in syms : known = {} \/ (e # None /\ None \notin known /\ e \notin known)}

\* Check 6, lines 72-76.
CyrillicCount(s) ==
    Cardinality({i \in 1..Len(s.rows["FusionAll"]) :
                   \E c \in {"E1", "E2", "E"} :
                      Cell(s, "FusionAll", s.rows["FusionAll"][i], c) \in {CyrillicEn, CyrillicEnIe}})

\* Check 7, lines 84-88.
AsteriskCount(s) ==
    Cardinality({i \in 1..Len(s.rows["FusionAll"]) :
                   \E c \in {"E1", "E2", "E"} :
                      HasAsterisk(Cell(s, "FusionAll", s.rows["FusionAll"][i], c))})

\* What the checks that ran have printed.
VerifyReport(s, n) ==
    [invalid |-> IF n >= 1 THEN InvalidElements(s) ELSE {},
     elements |-> IF n < 1 THEN "" ELSE IF InvalidElements(s) # {} THEN "invalid" ELSE "all_valid",
     cyrillic_count |-> IF n >= 6 THEN CyrillicCount(s) ELSE -1,
     cyrillic |-> IF n < 6 THEN "" ELSE IF CyrillicCount(s) = 0 THEN "none_found" ELSE "found",
     asterisk_count |-> IF n >= 7 THEN AsteriskCount(s) ELSE -1,
     asterisk |-> IF n < 7 THEN "" ELSE IF AsteriskCount(s) = 0 THEN "none_found" ELSE "found"]

VerifyDatabase(s) ==
    LET n == ChecksCompleted(s, 1)
    IN [done |-> n,
        report |-> VerifyReport(s, n),
        err |-> IF n = Len(VerifierNeeds) THEN "none"
                ELSE IF \A q \in VerifierNeeds[n + 1] : Resolves(s, q[1], q[2])
                     THEN "TypeError" ELSE "OperationalError"]

\* ------------------------------------------------ create_db: operations
BootCsvPath(t) ==
    CASE t = "FusionAll" -> "src/data/fusion.csv"
      [] t = "FissionAll" -> "src/data/fission.csv"
      [] t = "TwoToTwoAll" -> "src/data/twotwo.csv"

ReactionTables == <<"FusionAll", "FissionAll", "TwoToTwoAll">>

\* The columns each loader reads from the CSV record, in the order of its
\* INSERT statement.
ReadCols(t) ==
    CASE t = "FusionAll" ->
           <<"E1", "Z1", "A1", "E2", "Z2", "A2", "E", "Z", "A", "MeV">>
      [] t = "FissionAll" ->
           <<"E", "Z", "A", "E1", "Z1", "A1", "E2", "Z2", "A2", "MeV">>
      [] t = "TwoToTwoAll" ->
           <<"E1", "Z1", "A1", "E2", "Z2", "A2", "E3", "Z3", "A3", "E4", "Z4", "A4", "MeV">>

\* The literal values of the INSERT statements.
LiteralValue(c) ==
    IF c = "neutrino" THEN "none" ELSE IF c = "BEin" THEN "0.0" ELSE "b"

LiteralCols(t) ==
    CASE t = "FusionAll" ->
           {"neutrino", "nBorF1", "aBorF1", "nBorF2", "aBorF2", "nBorF", "aBorF", "BEin"}
      [] t = "FissionAll" ->
           {"neutrino", "nBorF", "aBorF", "nBorF1", "aBorF1", "nBorF2", "aBorF2", "BEin"}
      [] t = "TwoToTwoAll" ->
           {"neutrino", "nBorF1", "aBorF1", "nBorF2", "aBorF2", "nBorF3", "aBorF3",
            "nBorF4", "aBorF4", "BEin"}

SeqToSet(q) == {q[i] : i \in 1..Len(q)}

\* row[name] of csv.DictReader: KeyError when the header lacks the name,
\* None when the line is shorter than the header.
DictGet(headers, line, name) ==
    IF name \notin SeqToSet(headers) THEN [ok |-> FALSE, val |-> None, err |-> "KeyError"]
    ELSE LET i == CHOOSE j \in 1..Len(headers) : headers[j] = name
         IN [ok |-> TRUE, val |-> IF i > Len(line) THEN None ELSE line[i], err |-> "none"]

\* The conversion the loader applies to a column: the text itself for an
\* element symbol, float() for MeV, int(float()) for Z and A.
ConvertCell(c, v) ==
    IF c \in ECols THEN [ok |-> TRUE, val |-> v, err |-> "none"]
    ELSE IF v = None THEN [ok |-> FALSE, val |-> None, err |-> "TypeError"]
    ELSE IF ~IsFloatText(v) THEN [ok |-> FALSE, val |-> None, err |-> "ValueError"]
    ELSE [ok |-> TRUE,
          val |-> IF c = "MeV" THEN FloatEntry(v)[3] ELSE FloatEntry(v)[2],
          err |-> "none"]

\* The value the loader binds for column c of one CSV record.
BoundValue(headers, line, c) ==
    LET g == DictGet(headers, line, c)
    IN IF g.ok THEN ConvertCell(c, g.val) ELSE g

\* One pass of a loader's loop: convert the columns in order, then INSERT
\* with the id left to AUTOINCREMENT.
BootInsert(rows, cols, t, headers, line) ==
    LET rc == ReadCols(t)
        bad == {i \in 1..Len(rc) : ~BoundValue(headers, line, rc[i]).ok}
        colset == {cols[i][1] : i \in 1..Len(cols)}
    IN IF bad # {}
       THEN [ok |-> FALSE, rows |-> rows,
             err |-> BoundValue(headers, line,
                                rc[CHOOSE i \in bad : \A j \in bad : i <= j]).err]
       ELSE IF ~((SeqToSet(rc) \cup LiteralCols(t)) \subseteq colset)
       THEN [ok |-> FALSE, rows |-> rows, err |-> "OperationalError"]
       ELSE IF \E i \in 1..Len(rc) : BoundValue(headers, line, rc[i]).val = None
       THEN [ok |-> FALSE, rows |-> rows, err |-> "IntegrityError"]
       ELSE [ok |-> TRUE,
             rows |-> Append(rows,
                        [i \in 1..Len(cols) |->
                           IF cols[i][1] \in SeqToSet(rc)
                           THEN BoundValue(headers, line, cols[i][1]).val
                           ELSE IF cols[i][1] \in LiteralCols(t)
                           THEN LiteralValue(cols[i][1])
                           ELSE IF i = 1 THEN Numerals[MaxPk(rows) + 1]
                           ELSE None]),
             err |-> "none"]

RECURSIVE BootLoadRows(_, _, _, _, _, _)
BootLoadRows(rows, cols, t, headers, data, i) ==
    IF i > Len(data) THEN [ok |-> TRUE, rows |-> rows, err |-> "none"]
    ELSE IF data[i] = <<>> THEN BootLoadRows(rows, cols, t, headers, data, i + 1)
    ELSE LET r == BootInsert(rows, cols, t, headers, data[i])
         IN IF r.ok THEN BootLoadRows(r.rows, cols, t, headers, data, i + 1) ELSE r

\* The records csv.DictReader yields: the lines after the header that are
\* not blank.
Records(f) ==
    IF f.lines = <<>> THEN <<>>
    ELSE SelectSeq(Tail(f.lines), LAMBDA l : l # <<>>)

\* load_fusion_data / load_fission_data / load_twotwo_data: insert every
\* record, commit, print cursor.lastrowid.  An exception leaves the inserts
\* of this loader uncommitted.
LoadData(s, t, f) ==
    IF ~f.exists THEN [ok |-> FALSE, store |-> s, last |-> "", err |-> "FileNotFoundError"]
    ELSE IF f.lines = <<>> THEN [ok |-> TRUE, store |-> s, last |-> "None", err |-> "none"]
    ELSE LET r == BootLoadRows(s.rows[t], Columns(s.schema[t], t), t,
                               Head(f.lines), Tail(f.lines), 1)
         IN IF r.ok
            THEN [ok |-> TRUE,
                  store |-> [s EXCEPT !.rows[t] = r.rows, !.exists = TRUE],
                  last |-> IF Records(f) = <<>> THEN "None"
                           ELSE r.rows[Len(r.rows)][1],
                  err |-> "none"]
            ELSE [ok |-> FALSE, store |-> s, last |-> "", err |-> r.err]

\* The statements of create_db.create_tables: five CREATE TABLE IF NOT
\* EXISTS, then eight CREATE INDEX IF NOT EXISTS.
BootStatements == Len(BootTableOrder) + Len(BootIndexDefs)

RECURSIVE BootCreateUpTo(_, _)
BootCreateUpTo(s, k) ==
    IF k = 0 THEN [ok |-> TRUE, store |-> s]
    ELSE LET prev == BootCreateUpTo(s, k - 1)
         IN IF ~prev.ok THEN prev
            ELSE IF k <= Len(BootTableOrder)
            THEN LET t == BootTableOrder[k]
                 IN IF NameExists(prev.store, t) THEN prev
                    ELSE [ok |-> TRUE,
                          store |-> [prev.store EXCEPT !.schema[t] = "boot",
                                                       !.exists = TRUE]]
            ELSE LET d == BootIndexDefs[k - Len(BootTableOrder)]
                 IN IF d[1] \in prev.store.indexes THEN prev
                    ELSE IF d[3] \notin ColNameSet(prev.store.schema[d[2]], d[2])
                    THEN [ok |-> FALSE, store |-> prev.store]
                    ELSE [ok |-> TRUE,
                          store |-> [prev.store EXCEPT !.indexes = @ \cup {d[1]},
                                                       !.exists = TRUE]]

\* populate_elements: the (table, symbol column, Z column) triples of the
\* UNION query.
PairSources ==
    <<<<"FusionAll", "E1", "Z1">>, <<"FusionAll", "E2", "Z2">>, <<"FusionAll", "E", "Z">>,
      <<"FissionAll", "E", "Z">>, <<"FissionAll", "E1", "Z1">>, <<"FissionAll", "E2", "Z2">>,
      <<"TwoToTwoAll", "E1", "Z1">>, <<"TwoToTwoAll", "E2", "Z2">>,
      <<"TwoToTwoAll", "E3", "Z3">>, <<"TwoToTwoAll", "E4", "Z4">>>>

PairsQueryResolves(s) ==
    \A i \in 1..Len(PairSources) :
       /\ Resolves(s, PairSources[i][1], PairSources[i][2])
       /\ Resolves(s, PairSources[i][1], PairSources[i][3])

\* SELECT DISTINCT E, Z FROM (... UNION ...): the set of (symbol, Z) pairs.
ElementPairs(s) ==
    UNION {{<<Cell(s, PairSources[i][1], s.rows[PairSources[i][1]][j], PairSources[i][2]),
              Cell(s, PairSources[i][1], s.rows[PairSources[i][1]][j], PairSources[i][3])>> :
              j \in 1..Len(s.rows[PairSources[i][1]])} : i \in 1..Len(PairSources)}

\* ORDER BY Z: any listing of the pairs by non-decreasing Z; the order of
\* pairs with equal Z is not determined by the query.
OrderedByZ(P) ==
    {o \in [1..Cardinality(P) -> P] :
        /\ \A i, j \in 1..Cardinality(P) : i # j => o[i] # o[j]
        /\ \A i, j \in 1..Cardinality(P) : i < j => NumVal(o[i][2]) <= NumVal(o[j][2])}

\* The ElementsPlus row of INSERT ... (Z, E, EName, Period, [Group]) VALUES (z, e, e, 1, 1).
ElementRow(cols, e, z) ==
    [i \in 1..Len(cols) |->
       CASE cols[i][1] = "Z" -> z
         [] cols[i][1] \in {"E", "EName"} -> e
         [] cols[i][1] \in {"Period", "Group"} -> "1"
         [] OTHER -> None]

\* INSERT OR IGNORE of the listed pairs, in order: a pair whose Z is already
\* a key of ElementsPlus is dropped.
RECURSIVE InsertElements(_, _, _, _)
InsertElements(rows, cols, ord, i) ==
    IF i > Len(ord) THEN rows
    ELSE IF ord[i][2] \in PkSet(rows) \/ ord[i][1] = None
         THEN InsertElements(rows, cols, ord, i + 1)
    ELSE InsertElements(Append(rows, ElementRow(cols, ord[i][1], ord[i][2])), cols, ord, i + 1)

\* populate_elements on store s when the query returns the pairs as ord.
PopulateElements(s, ord) ==
    IF ~PairsQueryResolves(s) THEN [ok |-> FALSE, store |-> s]
    ELSE IF ord = <<>> THEN [ok |-> TRUE, store |-> s]
    ELSE IF "ElementsPlus" \in s.views
            \/ ~({"Z", "E", "EName", "Period", "Group"}
                   \subseteq ColNameSet(s.schema["ElementsPlus"], "ElementsPlus"))
         THEN [ok |-> FALSE, store |-> s]
    ELSE [ok |-> TRUE,
          store |-> [s EXCEPT !.rows["ElementsPlus"] =
                        InsertElements(@, Columns(s.schema["ElementsPlus"], "ElementsPlus"),
                                       ord, 1),
                     !.exists = TRUE]]

\* create_db.main: the calls it makes, in program order.
BootSteps ==
    <<"connect", "create_tables", "load_fusion_data", "load_fission_data",
      "load_twotwo_data", "populate_elements", "counts", "close">>

\* --------------------------------------------------- create_db: inputs
\* The headers extract_data.py gives the CSV files create_db reads.
BootHeader(t) ==
    CASE t = "FusionAll" -> <<"E1", "A1", "Z1", "E2", "A2", "Z2", "E", "A", "Z", "MeV">>
      [] t = "FissionAll" -> <<"E", "A", "Z", "E1", "A1", "Z1", "E2", "A2", "Z2", "MeV">>
      [] t = "TwoToTwoAll" ->
           <<"E1", "A1", "Z1", "E2", "A2", "Z2", "E3", "A3", "Z3", "E4", "A4", "Z4", "MeV">>

ZCols == {"Z", "Z1", "Z2", "Z3", "Z4"}

\* Which participant of the reaction a column describes.
Slot(c) ==
    CASE c \in {"E1", "A1", "Z1"} -> 1
      [] c \in {"E2", "A2", "Z2"} -> 2
      [] c \in {"E4", "A4", "Z4"} -> 4
      [] OTHER -> 3

\* Hydrogen, deuterium and tritium share the proton number 1.
BootSyms == <<"H", "D", "He", "T">>

ZText(sym) == IF sym = "He" THEN "2" ELSE "1"

BootSym(k, slot) == BootSyms[((k + slot - 2) % Len(BootSyms)) + 1]

BootCell(c, k) ==
    IF c \in ECols THEN BootSym(k, Slot(c))
    ELSE IF c \in ZCols THEN ZText(BootSym(k, Slot(c)))
    ELSE IF c = "MeV" THEN "1.5"
    ELSE "2.0"

BootRow(t, k) == [i \in 1..Len(BootHeader(t)) |-> BootCell(BootHeader(t)[i], k)]

BootLines(t, n) == <<BootHeader(t)>> \o [k \in 1..n |-> BootRow(t, k)]

BootDevKinds ==
    {"missing", "empty_file", "blank_line", "bad_number", "empty_number",
     "short_row", "no_column", "fraction"}

\* A CSV file for loader t with n well-formed records and one defect.
BootDeviant(t, kind, n) ==
    LET m == AtLeastOne(n)
        extra == BootRow(t, m + 1)
        w == Len(BootHeader(t))
    IN CASE kind = "missing" -> NoFile
         [] kind = "empty_file" -> [exists |-> TRUE, lines |-> <<>>]
         [] kind = "blank_line" ->
              [exists |-> TRUE, lines |-> Append(BootLines(t, m), <<>>)]
         [] kind = "bad_number" ->
              [exists |-> TRUE, lines |-> Append(BootLines(t, m), [extra EXCEPT ![3] = "x"])]
         [] kind = "fraction" ->
              [exists |-> TRUE, lines |-> Append(BootLines(t, m), [extra EXCEPT ![3] = "1.7"])]
         [] kind = "empty_number" ->
              [exists |-> TRUE, lines |-> Append(BootLines(t, m), [extra EXCEPT ![w] = ""])]
         [] kind = "short_row" ->
              [exists |-> TRUE, lines |-> Append(BootLines(t, m), SubSeq(extra, 1, w - 1))]
         [] kind = "no_column" ->
              [exists |-> TRUE,
               lines |-> [i \in 1..(n + 1) |-> SubSeq(BootLines(t, n)[i], 1, w - 1)]]

\* ---------------------------------------------------- create_db: actions
BootCur == IF bpc \in 1..Len(BootSteps) THEN BootSteps[bpc] ELSE "none"

BootRunning == bpc \in 1..Len(BootSteps) /\ err = "none"

BootDone == bpc = Len(BootSteps) + 1 /\ err = "none"

BootAborted == bpc # 0 /\ err # "none"

rebuildOnly == <<pc, loadIdx, log, first, firstRun, imported>>

\* The operator invokes `python scripts/create_db.py`.
BootStart ==
    /\ pc = 0
    /\ bpc = 0 \/ BootDone \/ BootAborted
    /\ run < MaxRuns
    /\ run' = run + 1
    /\ bpc' = 1
    /\ err' = "none"
    /\ conn' = Absent
    /\ printed' = NoPrint
    /\ reported' = NoReport
    /\ vdone' = -1
    /\ verr' = "none"
    /\ vreport' = NoVerifyReport
    /\ UNCHANGED <<csv, disk, rebuildOnly, parseVars, extractVars>>

\* main line 247: sqlite3.connect('public/parkhomov.db').
BootConnect ==
    /\ BootRunning /\ BootCur = "connect"
    /\ conn' = disk
    /\ bpc' = bpc + 1
    /\ UNCHANGED <<csv, disk, run, err, printed, reported, vdone, verr, vreport, rebuildOnly, parseVars, extractVars>>

\* main line 250.  DDL is committed statement by statement.
BootCreateTables ==
    /\ BootRunning /\ BootCur = "create_tables"
    /\ LET r == BootCreateUpTo(conn, BootStatements)
       IN /\ disk' = r.store
          /\ IF r.ok
             THEN conn' = r.store /\ bpc' = bpc + 1 /\ err' = "none"
             ELSE conn' = Absent /\ bpc' = bpc /\ err' = "OperationalError"
    /\ UNCHANGED <<csv, run, printed, reported, vdone, verr, vreport, rebuildOnly, parseVars, extractVars>>

\* main lines 253, 256, 259: the three loaders.
BootLoad ==
    /\ BootRunning
    /\ BootCur \in {"load_fusion_data", "load_fission_data", "load_twotwo_data"}
    /\ LET t == CASE BootCur = "load_fusion_data" -> "FusionAll"
                  [] BootCur = "load_fission_data" -> "FissionAll"
                  [] OTHER -> "TwoToTwoAll"
           r == LoadData(conn, t, csv[BootCsvPath(t)])
       IN /\ disk' = r.store
          /\ IF r.ok
             THEN /\ conn' = r.store
                  /\ bpc' = bpc + 1
                  /\ err' = "none"
                  /\ printed' = [printed EXCEPT ![t] = r.last]
             ELSE /\ conn' = Absent
                  /\ err' = r.err
                  /\ UNCHANGED <<bpc, printed>>
    /\ UNCHANGED <<csv, run, reported, vdone, verr, vreport, rebuildOnly, parseVars, extractVars>>

\* main line 262.
BootPopulate ==
    /\ BootRunning /\ BootCur = "populate_elements"
    /\ IF PairsQueryResolves(conn)
       THEN \E ord \in OrderedByZ(ElementPairs(conn)) :
               LET r == PopulateElements(conn, ord)
               IN /\ disk' = r.store
                  /\ IF r.ok
                     THEN /\ conn' = r.store
                          /\ bpc' = bpc + 1
                          /\ err' = "none"
                          /\ printed' = [printed EXCEPT !["ElementsPlus"] =
                                            IF ord = <<>> THEN "0" ELSE Numerals[Len(ord)]]
                     ELSE /\ conn' = Absent
                          /\ err' = "OperationalError"
                          /\ UNCHANGED <<bpc, printed>>
       ELSE /\ conn' = Absent
            /\ err' = "OperationalError"
            /\ UNCHANGED <<disk, bpc, printed>>
    /\ UNCHANGED <<csv, run, reported, vdone, verr, vreport, rebuildOnly, parseVars, extractVars>>

\* main lines 264-274: the three SELECT COUNT(*) and the summary.
BootCounts ==
    /\ BootRunning /\ BootCur = "counts"
    /\ IF \A i \in 1..Len(ReactionTables) : conn.schema[ReactionTables[i]] # "none"
       THEN /\ reported' = [t \in TableSet |->
                              IF t \in SeqToSet(ReactionTables) THEN Len(conn.rows[t]) ELSE -1]
            /\ bpc' = bpc + 1
            /\ UNCHANGED <<conn, err>>
       ELSE /\ conn' = Absent
            /\ err' = "OperationalError"
            /\ UNCHANGED <<reported, bpc>>
    /\ UNCHANGED <<csv, disk, run, printed, vdone, verr, vreport, rebuildOnly, parseVars, extractVars>>

\* main line 277: conn.close().
BootClose ==
    /\ BootRunning /\ BootCur = "close"
    /\ conn' = Absent
    /\ bpc' = bpc + 1
    /\ UNCHANGED <<csv, disk, run, err, printed, reported, vdone, verr, vreport, rebuildOnly, parseVars, extractVars>>

\* The environment fails the statement being executed; DDL statements
\* already executed by create_tables stay committed.
BootFault ==
    /\ BootRunning /\ BootCur # "close"
    /\ \E k \in 0..BootStatements - 1 :
         IF BootCur = "create_tables"
         THEN BootCreateUpTo(conn, k).ok /\ disk' = BootCreateUpTo(conn, k).store
         ELSE k = 0 /\ disk' = disk
    /\ err' = "IOError"
    /\ conn' = Absent
    /\ UNCHANGED <<csv, bpc, run, printed, reported, vdone, verr, vreport, rebuildOnly, parseVars, extractVars>>

\* ---------------------------------------------------- verify_db: action
\* The operator invokes `python scripts/verify_db.py` while no build runs.
\* Connecting creates the file when there is none; nothing else is written.
VerifyDb ==
    /\ ~Running /\ ~BootRunning
    /\ vdone = -1
    /\ vdone' = VerifyDatabase(disk).done
    /\ verr' = VerifyDatabase(disk).err
    /\ vreport' = VerifyDatabase(disk).report
    /\ disk' = [disk EXCEPT !.exists = TRUE]
    /\ UNCHANGED <<csv, conn, run, err, reported, bpc, printed, rebuildOnly, parseVars, extractVars>>

InitBoot ==
    /\ \E n \in 0..MaxRows, dev \in SeqToSet(ReactionTables) \cup {"none"},
          kind \in BootDevKinds :
         csv = [p \in Paths |->
                  IF p \notin BootPaths THEN NoFile
                  ELSE LET t == CHOOSE x \in SeqToSet(ReactionTables) : BootCsvPath(x) = p
                       IN IF t = dev THEN BootDeviant(t, kind, n)
                          ELSE [exists |-> TRUE, lines |-> BootLines(t, NRows(n, t))]]
    /\ disk = Absent
    /\ conn = Absent
    /\ pc = 0
    /\ loadIdx = 0
    /\ log = <<>>
    /\ run = 0
    /\ err = "none"
    /\ reported = NoReport
    /\ first = Absent
    /\ firstRun = 0
    /\ imported = NoReport
    /\ bpc = 0
    /\ printed = NoPrint
    /\ vdone = -1
    /\ verr = "none"
    /\ vreport = NoVerifyReport
    /\ frags = [k \in FileKeys |-> NoFragment]
    /\ ppc = "off"
    /\ files = <<>>
    /\ pidx = 0
    /\ allHeaders = NoHeaders
    /\ allRows = <<>>
    /\ rowSrc = <<>>
    /\ warned = {}
    /\ wrote = FALSE
    /\ xls = NoWorkbook
    /\ xpc = 0
    /\ cpc = 0
    /\ frames = NoFrames
    /\ sql = NoFile

NextBoot ==
    \/ BootStart
    \/ BootConnect
    \/ BootCreateTables
    \/ BootLoad
    \/ BootPopulate
    \/ BootCounts
    \/ BootClose
    \/ BootFault
    \/ VerifyDb

SpecBoot == InitBoot /\ [][NextBoot]_vars

Init ==
    /\ \E n \in 0..MaxRows, dev \in TableSet \cup {"none"}, kind \in DevKinds :
         csv = [p \in Paths |->
                  IF p \notin RebuildPaths THEN NoFile
                  ELSE IF TableOfPath(p) = dev THEN Deviant(dev, kind, n)
                  ELSE [exists |-> TRUE,
                        lines |-> GoodLines(TableOfPath(p), NRows(n, TableOfPath(p)))]]
    /\ disk \in PriorStores
    /\ conn = Absent
    /\ pc = 0
    /\ loadIdx = 0
    /\ log = <<>>
    /\ run = 0
    /\ err = "none"
    /\ reported = NoReport
    /\ first = Absent
    /\ firstRun = 0
    /\ imported = NoReport
    /\ bpc = 0
    /\ printed = NoPrint
    /\ vdone = -1
    /\ verr = "none"
    /\ vreport = NoVerifyReport
    /\ frags = [k \in FileKeys |-> NoFragment]
    /\ ppc = "off"
    /\ files = <<>>
    /\ pidx = 0
    /\ allHeaders = NoHeaders
    /\ allRows = <<>>
    /\ rowSrc = <<>>
    /\ warned = {}
    /\ wrote = FALSE
    /\ xls = NoWorkbook
    /\ xpc = 0
    /\ cpc = 0
    /\ frames = NoFrames
    /\ sql = NoFile

Next ==
    \/ StartRun
    \/ StepDelete
    \/ StepConnect
    \/ StepCreateTables
    \/ StepImport
    \/ StepCreateIndexes
    \/ StepCreateView
    \/ StepVerify
    \/ StepClose
    \/ Fault
    \/ VerifyDb

Spec == Init /\ [][Next]_vars

\* -------------------------------------------- parse_html_tables: inputs
MergedTable == "TwoToTwoAll"

HeaderA == ColNames("full", MergedTable)

\* A header that names the same columns with E1 and A1 exchanged.
HeaderB == [HeaderA EXCEPT ![4] = "A1", ![5] = "E1"]

ColumnNamed(name) ==
    LET cols == FullColumns(MergedTable)
    IN cols[CHOOSE i \in 1..Len(cols) : cols[i][1] = name]

\* A data row laid out as its own header h says.
FragRow(h, k) == [p \in 1..Len(h) |-> CellFor(ColumnNamed(h[p]), k)]

Padded(row) == [row EXCEPT ![4] = IF @ = "H" THEN " H " ELSE IF @ = "D" THEN " D " ELSE @]

FragKinds == {"absent", "no_table", "header_only", "one_row", "two_rows",
              "other_header", "no_header_cells"}

\* The file with key number j: its first row has the id 2j-1; the second
\* row of a file with two rows is the same row in every file.
Fragment(kind, j) ==
    CASE kind = "absent" -> NoFragment
      [] kind = "no_table" -> [matched |-> TRUE, table |-> FALSE, trs |-> <<>>]
      [] kind = "header_only" -> [matched |-> TRUE, table |-> TRUE, trs |-> <<HeaderA>>]
      [] kind = "one_row" ->
           [matched |-> TRUE, table |-> TRUE,
            trs |-> <<HeaderA, Padded(FragRow(HeaderA, 2 * j - 1))>>]
      [] kind = "two_rows" ->
           [matched |-> TRUE, table |-> TRUE,
            trs |-> <<HeaderA, FragRow(HeaderA, 2 * j - 1), <<>>, FragRow(HeaderA, 2)>>]
      [] kind = "other_header" ->
           [matched |-> TRUE, table |-> TRUE,
            trs |-> <<HeaderB, FragRow(HeaderB, 2 * j - 1)>>]
      [] kind = "no_header_cells" ->
           [matched |-> TRUE, table |-> TRUE,
            trs |-> <<<<>>, FragRow(HeaderA, 2 * j - 1)>>]

\* ------------------------------------------- parse_html_tables: actions
ParseRunning == ppc \in {"idle", "loop", "returned", "returned_none"}

rebuildAll == <<disk, conn, pc, loadIdx, log, run, err, reported, first, firstRun,
                imported, bpc, printed, vdone, verr, vreport>>

\* parse_multi_file_table, lines 49-56: the sorted file list; without
\* files the result is (None, None).
ParseBegin ==
    /\ ppc = "idle"
    /\ LET matched == {k \in FileKeys : frags[k].matched}
       IN /\ files' = SortedKeys(matched)
          /\ ppc' = IF matched = {} THEN "returned_none" ELSE "loop"
    /\ pidx' = 1
    /\ UNCHANGED <<frags, allHeaders, allRows, rowSrc, warned, wrote, csv, rebuildAll, extractVars>>

\* parse_multi_file_table, lines 58-74: one file.
ParseFile ==
    /\ ppc = "loop" /\ pidx <= Len(files)
    /\ LET key == files[pidx]
           acc == MergeFile([headers |-> allHeaders, rows |-> allRows,
                             src |-> rowSrc, warned |-> warned],
                            key, ParseHtmlTable(frags[key]))
       IN /\ allHeaders' = acc.headers
          /\ allRows' = acc.rows
          /\ rowSrc' = acc.src
          /\ warned' = acc.warned
    /\ pidx' = pidx + 1
    /\ UNCHANGED <<frags, ppc, files, wrote, csv, rebuildAll, extractVars>>

\* parse_multi_file_table, line 76.
ParseReturn ==
    /\ ppc = "loop" /\ pidx > Len(files)
    /\ ppc' = "returned"
    /\ UNCHANGED <<frags, files, pidx, allHeaders, allRows, rowSrc, warned, wrote,
                   csv, rebuildAll, extractVars>>

\* main, lines 120-123: the merged table is written when both the headers
\* and the rows are non-empty.
MainWrite ==
    /\ ppc \in {"returned", "returned_none"}
    /\ IF ppc = "returned" /\ ~allHeaders.isNone /\ allHeaders.v # <<>> /\ allRows # <<>>
       THEN /\ csv' = [csv EXCEPT ![CsvPath(MergedTable)] = WriteCsv(allHeaders.v, allRows)]
            /\ wrote' = TRUE
       ELSE UNCHANGED <<csv, wrote>>
    /\ ppc' = "finished"
    /\ UNCHANGED <<frags, files, pidx, allHeaders, allRows, rowSrc, warned, rebuildAll, extractVars>>

\* The crawl directory holds any of the files; the other tables' CSVs are
\* in place; the merged table's CSV is missing or left from an earlier export.
InitParse ==
    /\ \E kinds \in [FileKeys -> FragKinds] :
         frags = [k \in FileKeys |-> Fragment(kinds[k], KeyIndex(k))]
    /\ \E stale \in BOOLEAN :
         csv = [p \in Paths |->
                  IF p \notin RebuildPaths THEN NoFile
                  ELSE IF TableOfPath(p) = MergedTable /\ ~stale THEN NoFile
                  ELSE [exists |-> TRUE, lines |-> GoodLines(TableOfPath(p), 1)]]
    /\ disk = Absent
    /\ conn = Absent
    /\ pc = 0
    /\ loadIdx = 0
    /\ log = <<>>
    /\ run = 0
    /\ err = "none"
    /\ reported = NoReport
    /\ first = Absent
    /\ firstRun = 0
    /\ imported = NoReport
    /\ bpc = 0
    /\ printed = NoPrint
    /\ vdone = -1
    /\ verr = "none"
    /\ vreport = NoVerifyReport
    /\ ppc = "idle"
    /\ files = <<>>
    /\ pidx = 0
    /\ allHeaders = NoHeaders
    /\ allRows = <<>>
    /\ rowSrc = <<>>
    /\ warned = {}
    /\ wrote = FALSE
    /\ xls = NoWorkbook
    /\ xpc = 0
    /\ cpc = 0
    /\ frames = NoFrames
    /\ sql = NoFile

NextParse ==
    \/ ParseBegin
    \/ ParseFile
    \/ ParseReturn
    \/ MainWrite
    \/ StartRun
    \/ StepDelete
    \/ StepConnect
    \/ StepCreateTables
    \/ StepImport
    \/ StepCreateIndexes
    \/ StepCreateView
    \/ StepVerify
    \/ StepClose

SpecParse == InitParse /\ [][NextParse]_vars

\* ---------------------------- extract_data, convert_excel_to_sql: inputs
\* The column a raw row leaves empty, if the row's family has it.
NullKinds == {"none", "E1", "E2", "E", "E3", "E4", "MeV", "A1"}

RawCell(c, k, nk) ==
    IF c = nk THEN NaN
    ELSE IF c \in ECols THEN BootSym(k, Slot(c))
    ELSE IF c \in ZCols THEN ZText(BootSym(k, Slot(c)))
    ELSE IF c = "MeV" THEN "1.5"
    ELSE Numerals[k + 2]

\* A row of the Fus_Fis sheet: fusion in columns 0-9, fission in 12-21.
FusFisRow(k, nk) ==
    [i \in 1..22 |->
       IF i <= 10 THEN RawCell(SheetColumns("fusion")[i], k, nk)
       ELSE IF i <= 12 THEN NaN
       ELSE RawCell(SheetColumns("fission")[i - 12], k, nk)]

TwoTwoRow(k, nk) == [i \in 1..13 |-> RawCell(SheetColumns("twotwo")[i], k, nk)]

TitleRow(n) == [i \in 1..n |-> NaN]

CaptionRow(n) == [i \in 1..n |-> "caption"]

\* The workbook: title rows, the header line, then the data rows; the
\* 2--->2 sheet has one or two header lines.
Workbook(ks, twoHeaders) ==
    [n \in SheetNames |->
       IF n = "Fus_Fis"
       THEN [i \in 1..6 |-> TitleRow(22)] \o <<CaptionRow(22)>>
            \o [k \in 1..Len(ks) |-> FusFisRow(k, ks[k])]
       ELSE [i \in 1..7 |-> TitleRow(13)] \o <<CaptionRow(13)>>
            \o (IF twoHeaders THEN <<CaptionRow(13)>> ELSE <<>>)
            \o [k \in 1..Len(ks) |-> TwoTwoRow(k, ks[k])]]

\* --------------------------- extract_data, convert_excel_to_sql: actions
notExtract == <<disk, conn, pc, loadIdx, log, run, err, reported, first, firstRun,
                imported, bpc, printed, vdone, verr, vreport, parseVars>>

\* extract_data.process_fusion_fission.
ProcessFusionFission ==
    /\ xpc = 0
    /\ LET fu == ProcessFrame(xls, "fusion")
           fi == ProcessFrame(xls, "fission")
       IN /\ frames' = [frames EXCEPT !["process_fusion"] = fu, !["process_fission"] = fi]
          /\ csv' = [csv EXCEPT !["src/data/fusion.csv"] = ToCsv(fu, SheetColumns("fusion")),
                                !["src/data/fission.csv"] = ToCsv(fi, SheetColumns("fission"))]
    /\ xpc' = 1
    /\ UNCHANGED <<xls, cpc, sql, notExtract>>

\* extract_data.process_twotwo_sample.
ProcessTwotwoSample ==
    /\ xpc = 1
    /\ LET tt == ProcessFrame(xls, "twotwo")
       IN /\ frames' = [frames EXCEPT !["process_twotwo"] = tt]
          /\ csv' = [csv EXCEPT !["src/data/twotwo.csv"] = ToCsv(tt, SheetColumns("twotwo"))]
    /\ xpc' = 2
    /\ UNCHANGED <<xls, cpc, sql, notExtract>>

\* convert_excel_to_sql.main, line 111.
ExtractFusionData ==
    /\ cpc = 0
    /\ frames' = [frames EXCEPT !["extract_fusion"] = ExtractFrame(xls, "fusion")]
    /\ cpc' = 1
    /\ UNCHANGED <<xls, xpc, sql, csv, notExtract>>

\* convert_excel_to_sql.main, line 115.
ExtractFissionData ==
    /\ cpc = 1
    /\ frames' = [frames EXCEPT !["extract_fission"] = ExtractFrame(xls, "fission")]
    /\ cpc' = 2
    /\ UNCHANGED <<xls, xpc, sql, csv, notExtract>>

\* convert_excel_to_sql.main, line 119.
ExtractTwotwoData ==
    /\ cpc = 2
    /\ frames' = [frames EXCEPT !["extract_twotwo"] = ExtractFrame(xls, "twotwo")]
    /\ cpc' = 3
    /\ UNCHANGED <<xls, xpc, sql, csv, notExtract>>

\* convert_excel_to_sql.main, lines 123-134.
ConvertWriteSql ==
    /\ cpc = 3
    /\ sql' = [exists |-> TRUE,
               lines |-> GenerateSql(frames["extract_fusion"], "fusion")
                         \o GenerateSql(frames["extract_fission"], "fission")
                         \o GenerateSql(frames["extract_twotwo"], "twotwo")]
    /\ cpc' = 4
    /\ UNCHANGED <<xls, xpc, frames, csv, notExtract>>

InitExtract ==
    /\ \E n \in 0..MaxRows : \E ks \in [1..n -> NullKinds] : \E twoHeaders \in BOOLEAN :
         xls = Workbook(ks, twoHeaders)
    /\ csv = [p \in Paths |-> NoFile]
    /\ disk = Absent
    /\ conn = Absent
    /\ pc = 0
    /\ loadIdx = 0
    /\ log = <<>>
    /\ run = 0
    /\ err = "none"
    /\ reported = NoReport
    /\ first = Absent
    /\ firstRun = 0
    /\ imported = NoReport
    /\ bpc = 0
    /\ printed = NoPrint
    /\ vdone = -1
    /\ verr = "none"
    /\ vreport = NoVerifyReport
    /\ frags = [k \in FileKeys |-> NoFragment]
    /\ ppc = "off"
    /\ files = <<>>
    /\ pidx = 0
    /\ allHeaders = NoHeaders
    /\ allRows = <<>>
    /\ rowSrc = <<>>
    /\ warned = {}
    /\ wrote = FALSE
    /\ xpc = 0
    /\ cpc = 0
    /\ frames = NoFrames
    /\ sql = NoFile

NextExtract ==
    \/ ProcessFusionFission
    \/ ProcessTwotwoSample
    \/ ExtractFusionData
    \/ ExtractFissionData
    \/ ExtractTwotwoData
    \/ ConvertWriteSql

SpecExtract == InitExtract /\ [][NextExtract]_vars

\* ------------------------------------------------- claims on rebuild_db
IsPrefix(a, b) == Len(a) <= Len(b) /\ a = SubSeq(b, 1, Len(a))

InLog(x) == \E i \in 1..Len(log) : log[i] = x

ExpectedLog ==
    <<"delete_database", "connect", "create_tables",
      "FusionAll", "FissionAll", "TwoToTwoAll", "NuclidesPlus",
      "ElementPropertiesPlus", "AtomicRadii", "RadioNuclides",
      "create_indexes", "create_elements_plus_view", "verify_database", "close">>

\* C1: in every run of rebuild_db.main the completed phases form a prefix of
\* delete -> (connect) -> create schema -> load each table once -> indexes ->
\* view -> verify -> done, and verification has run only when all seven
\* tables are loaded and all indexes exist.
C1_PhaseOrder ==
    /\ IsPrefix(log, ExpectedLog)
    /\ InLog("verify_database") =>
          /\ loadIdx = 7
          /\ \A t \in {"FusionAll", "FissionAll", "TwoToTwoAll", "NuclidesPlus",
                       "ElementPropertiesPlus", "AtomicRadii", "RadioNuclides"} :
                InLog(t) /\ disk.schema[t] = "full"
          /\ IndexNames \subseteq disk.indexes
    /\ Done => log = ExpectedLog

C1_Witness == Done /\ log = ExpectedLog /\ reported["FusionAll"] >= 1

\* C2: whatever the store file held before the run, it is gone when the
\* schema is created, and when the load of a table begins that table (and
\* every table still to load) exists and holds no row.
C2_FreshStore ==
    /\ (Running /\ Cur \in {"connect", "create_tables"}) => ~disk.exists
    /\ (Running /\ Cur = "create_tables") => conn = Absent
    /\ (Running /\ Cur = "import_csv") =>
          \A i \in (loadIdx + 1)..Len(TableOrder) :
             /\ conn.schema[TableOrder[i]] = "full"
             /\ conn.rows[TableOrder[i]] = <<>>
             /\ disk.rows[TableOrder[i]] = <<>>

C2_Witness ==
    /\ Running /\ Cur = "import_csv" /\ loadIdx = 0
    /\ run = 2 /\ firstRun = 1 /\ first.rows["FusionAll"] # <<>>

\* C3: a run that follows a completed run on the same CSV files completes
\* too (unless the environment fails it) and leaves exactly the store the
\* first one left: same tables, same rows in the same order.
C3_Idempotent ==
    (firstRun # 0 /\ run > firstRun /\ (Done \/ (Aborted /\ err # "IOError")))
        => (Done /\ disk = first)

C3_Witness ==
    /\ Done /\ firstRun = 1 /\ run = 2
    /\ Len(disk.rows["FusionAll"]) >= 2
    /\ disk = first

NoRows(s) == \A t \in Names : s.rows[t] = <<>>

\* C5 (as claimed): a run in which a phase has failed is never verified and
\* leaves no rows of its own committed in the store file.
C5_NoPartialStore ==
    (Aborted /\ pc > 1) =>
        /\ ~InLog("verify_database") /\ reported = NoReport
        /\ NoRows(disk)

\* C5 (amended): once a phase has failed nothing further is executed and the
\* run is never verified; the store file keeps what was committed before the
\* failure: every table loaded before it holds all data rows of its CSV, the
\* table whose load failed and the tables after it hold none.
C5_AbortKeepsCommitted ==
    /\ [](Aborted => ~InLog("verify_database") /\ reported = NoReport)
    /\ []((Aborted /\ pc > 1) =>
            \A i \in 1..Len(TableOrder) :
               Len(disk.rows[TableOrder[i]]) =
                  IF i <= loadIdx THEN DataRows(csv[CsvPath(TableOrder[i])]) ELSE 0)
    /\ [][Aborted => (UNCHANGED <<pc, log, loadIdx, reported, imported, disk.schema,
                                   disk.rows, disk.indexes, disk.views>>
                       \/ run' = run + 1)]_vars

C5_Witness ==
    /\ Aborted /\ err = "IntegrityError"
    /\ loadIdx >= 1
    /\ \E i \in 1..loadIdx : disk.rows[TableOrder[i]] # <<>>
    /\ Len(csv[CsvPath(TableOrder[loadIdx + 1])].lines) >= 3

\* C6: after a run that reaches done, every table holds as many rows as its
\* CSV has lines after the header, and that is the count verification prints.
C6_RowCounts ==
    Done => \A t \in TableSet :
               /\ Len(disk.rows[t]) = DataRows(csv[CsvPath(t)])
               /\ reported[t] = DataRows(csv[CsvPath(t)])
               /\ Cardinality(PkSet(disk.rows[t])) = Len(disk.rows[t])

C6_Witness ==
    /\ Done
    /\ Len(disk.rows["FusionAll"]) = MaxRows
    /\ \E t \in TableSet : disk.rows[t] = <<>>
    /\ \E t \in TableSet : \E i \in 2..Len(csv[CsvPath(t)].lines) :
          csv[CsvPath(t)].lines[i][1] = ""

\* -------------------------------------- claims on create_db and verify_db
\* C4: after any number of completed bootstrap builds on the same CSV files,
\* each reaction table holds exactly one row per record of its CSV file.
C4_OneRowPerCsvRow ==
    BootDone =>
        \A i \in 1..Len(ReactionTables) :
           Len(disk.rows[ReactionTables[i]])
              = Len(Records(csv[BootCsvPath(ReactionTables[i])]))

ParticipantSymbols(s) == {p[1] : p \in ElementPairs(s)}

ElementSymbols(s) ==
    {Cell(s, "ElementsPlus", s.rows["ElementsPlus"][j], "E") :
        j \in 1..Len(s.rows["ElementsPlus"])}

\* C7: after a completed bootstrap build, every element symbol in a
\* participant column of a reaction table is the symbol of some row of
\* ElementsPlus, also when several symbols share one proton number.
C7_SymbolsInElementTable ==
    BootDone => ParticipantSymbols(disk) \subseteq ElementSymbols(disk)

\* C8: a store completed in either mode has every relation and column the
\* queries of verify_db name, so that verify_db runs all of its checks on it.
C8_VerifierSchema ==
    (Done \/ BootDone) =>
        /\ \A k \in 1..Len(VerifierNeeds) :
              \A q \in VerifierNeeds[k] : Resolves(disk, q[1], q[2])
        /\ vdone # -1 => vdone = Len(VerifierNeeds)


\* ------------------------------------------ claims on parse_html_tables
Parsed(k) == ParseHtmlTable(frags[k])

\* Whether the file has a results table with at least one row.
HasTable(k) == frags[k].table /\ frags[k].trs # <<>>

\* The header line each file carries in its first table row.
OwnHeaders ==
    [k \in FileKeys |->
       IF ~frags[k].table \/ frags[k].trs = <<>> THEN <<>>
       ELSE [i \in 1..Len(Head(frags[k].trs)) |-> Strip(Head(frags[k].trs)[i])]]

RowsKept(k) ==
    LET rows == Parsed(k).rows
        at == {m \in 1..Len(allRows) : rowSrc[m] = k}
    IN /\ Cardinality(at) = Len(rows)
       /\ \A r \in 1..Len(rows) : \E m \in at : allRows[m] = rows[r]

\* C9: in parse_multi_file_table, a file whose header differs from the
\* header of the group's first file (the first that has a table) gets a
\* mismatch warning, the loop goes on to the end of the file list, and every
\* data row of that file and of all later files is appended to the merged
\* result.
C9_MismatchWarnedRowsKept ==
    /\ ppc \in {"loop", "returned", "finished"} =>
         LET withTable == {i \in 1..(pidx - 1) : HasTable(files[i])}
         IN \A f \in withTable :
               (\A g \in withTable : f <= g) =>
                  LET firstHeader == OwnHeaders[files[f]]
                  IN \A i \in withTable :
                        OwnHeaders[files[i]] # firstHeader =>
                           /\ files[i] \in warned
                           /\ \A j \in i..(pidx - 1) : RowsKept(files[j])
    /\ ppc \in {"returned", "finished"} => pidx = Len(files) + 1

C9_Witness ==
    /\ ppc = "finished"
    /\ \E i, j \in 1..Len(files) :
          /\ i < j
          /\ files[i] \in warned
          /\ Parsed(files[i]).rows # <<>>
          /\ \E m \in 1..Len(allRows) : rowSrc[m] = files[i]
          /\ \E m \in 1..Len(allRows) : rowSrc[m] = files[j]

\* The cell at position p of a row sits under the name names[p] although
\* the header own of the row's file names another column, or none, at p.
Misplaced(own, names, p) ==
    /\ p <= Len(names)
    /\ ~(p <= Len(own) /\ own[p] = names[p])

MergedCsv == csv[CsvPath(MergedTable)]

Loaded == wrote /\ Done /\ Len(disk.rows[MergedTable]) = Len(allRows)

\* Whether some cell of row, from a file with the header own, is misplaced
\* under the names.
AnyMisplaced(own, names, row) == \E p \in 1..Len(row) : Misplaced(own, names, p)

\* C10 as stated: no cell of a row from a file whose header differs from the
\* first header is stored under a column name of the first header that its
\* own header does not name at that position, in the merged rows, in the
\* merged CSV and in the table loaded from it.
C10_NeverPositional ==
    \A m \in 1..Len(allRows) :
       LET own == OwnHeaders[rowSrc[m]]
           schema == ColNames("full", MergedTable)
       IN /\ ~AnyMisplaced(own, allHeaders.v, allRows[m])
          /\ wrote => ~AnyMisplaced(own, MergedCsv.lines[1], MergedCsv.lines[m + 1])
          /\ Loaded =>
               \A p \in 1..Len(disk.rows[MergedTable][m]) :
                  schema[p] = allHeaders.v[p] => ~Misplaced(own, schema, p)

\* C10, amended: a cell is stored under a column name of the first header
\* that its own header does not name at that position only if a mismatch
\* warning was reported for its file; the merged CSV holds the merged rows
\* under the first header and the table holds them in the same order.
C10_NeverSilentlyPositional ==
    /\ wrote => MergedCsv.lines = <<allHeaders.v>> \o allRows
    /\ (wrote /\ Done) => Len(disk.rows[MergedTable]) = Len(allRows)
    /\ \A m \in 1..Len(allRows) :
          /\ (wrote /\ Done) => disk.rows[MergedTable][m] = ConvertRow(allRows[m])
          /\ rowSrc[m] \notin warned =>
                LET own == OwnHeaders[rowSrc[m]]
                    schema == ColNames("full", MergedTable)
                IN /\ ~AnyMisplaced(own, allHeaders.v, allRows[m])
                   /\ wrote => ~AnyMisplaced(own, MergedCsv.lines[1], MergedCsv.lines[m + 1])
                   /\ (wrote /\ Done) =>
                        \A p \in 1..Len(disk.rows[MergedTable][m]) :
                           schema[p] = allHeaders.v[p] => ~Misplaced(own, schema, p)

C10_Witness ==
    /\ Loaded
    /\ \E m \in 1..Len(allRows) :
          /\ rowSrc[m] \in warned
          /\ Misplaced(Parsed(rowSrc[m]).headers, ColNames("full", MergedTable), 5)
          /\ allHeaders.v = ColNames("full", MergedTable)
          /\ disk.rows[MergedTable][m] = ConvertRow(allRows[m])
          /\ disk.rows[MergedTable][m][5] \in {"H", "D", "He"}

\* The glob matched no file and main is past the merged table.
ZeroFilesHandled == ppc = "finished" /\ files = <<>>

\* C11: when the glob matches no file, the source is treated as empty and
\* not as missing: the merged table's CSV exists and holds no data row, and
\* a rebuild that ends afterwards has completed with the table existing and
\* holding no row.
C11_ZeroFilesEmptySource ==
    ZeroFilesHandled =>
       /\ MergedCsv.exists /\ DataRows(MergedCsv) = 0
       /\ (Done \/ Aborted) =>
             /\ Done
             /\ disk.schema[MergedTable] = "full"
             /\ disk.rows[MergedTable] = <<>>


\* ------------------------------------------------ claims on the extractors
KeyColumns(fam) == {c \in ECols \cup {"MeV"} : \E i \in 1..Len(SheetColumns(fam)) : SheetColumns(fam)[i] = c}

KeysPresent(r, fam) ==
    \A c \in KeyColumns(fam) : r.cells[ColumnAt(SheetColumns(fam), c)] # NaN

RetainedLines(e) == {frames[e].rows[i].line : i \in 1..Len(frames[e].rows)}

\* C12: every extractor retains a raw row exactly when all of its key
\* columns (every participant symbol and MeV) are non-null, so the two
\* extractors of a family retain the same rows.
C12_RetainedIffKeysPresent ==
    /\ \A e \in Extractors :
          frames[e].set =>
             \A i \in 1..Len(frames[e].read) :
                (frames[e].read[i].line \in RetainedLines(e))
                   <=> KeysPresent(frames[e].read[i], FamilyOf(e))
    /\ \A e1, e2 \in Extractors :
          (frames[e1].set /\ frames[e2].set /\ FamilyOf(e1) = FamilyOf(e2))
             => RetainedLines(e1) = RetainedLines(e2)


\* ---------------------------------------------------- claims on the loaders
IntegralTexts == {Numerals[n] : n \in 1..Len(Numerals)} \cup {"1.0", "2.0", "3.0", "4.0"}

RealTexts == IntegralTexts \cup {"1.5", "1.7"}

\* A cell of a CSV that is a well-formed number of the column's kind.
WellFormedNumber(type, v) ==
    CASE type = "I" -> v \in IntegralTexts
      [] type = "R" -> v \in RealTexts
      [] OTHER -> TRUE

BootColumnType(c) == IF c \in ECols THEN "T" ELSE IF c = "MeV" THEN "R" ELSE "I"

\* C13: a cell of an integer or real column that is not a well-formed
\* number of that kind makes the load of its table fail: a table whose load
\* succeeded has no such cell in its CSV (empty cells, which stand for
\* null, aside), for import_csv and for the load_*_data loaders.
C13_MalformedNumberFailsLoad ==
    /\ \A t \in TableSet :
          (imported[t] >= 0 /\ csv[CsvPath(t)].exists) =>
             \A l \in 2..Len(csv[CsvPath(t)].lines) :
                \A i \in 1..Len(csv[CsvPath(t)].lines[l]) :
                   (i <= Len(FullColumns(t)) /\ csv[CsvPath(t)].lines[l][i] # "")
                      => WellFormedNumber(FullColumns(t)[i][2], csv[CsvPath(t)].lines[l][i])
    /\ \A t \in SeqToSet(ReactionTables) :
          (printed[t] # "" /\ csv[BootCsvPath(t)].exists) =>
             \A l \in 2..Len(csv[BootCsvPath(t)].lines) :
                \A i \in 1..Len(csv[BootCsvPath(t)].lines[l]) :
                   i <= Len(BootHeader(t))
                      => WellFormedNumber(BootColumnType(BootHeader(t)[i]),
                                          csv[BootCsvPath(t)].lines[l][i])


\* --------------------------------------------------- claims on verify_db
\* C14: on the store of a completed rebuild, verify_db.verify_database
\* executes and reports every check from the first to the last, whatever
\* the store holds in nullable columns.
C14_AllChecksRun ==
    (Done /\ vdone # -1) => (vdone = Len(VerifierNeeds) /\ verr = "none")


\* The non-null symbols in the participant columns of reaction table t.
SymbolsOf(s, t) ==
    {Cell(s, t, r, c) : r \in RowSet(s, t),
                        c \in {x \in ECols : x \in ColNameSet(s.schema[t], t)}} \ {None}

MissingSymbols(s) ==
    (SymbolsOf(s, "FusionAll") \cup SymbolsOf(s, "FissionAll") \cup SymbolsOf(s, "TwoToTwoAll"))
       \ SymbolsOf(s, "ElementPropertiesPlus")

\* C15: check 1 of the Verifier reports exactly the distinct element
\* symbols that occur in a participant column of FusionAll, FissionAll or
\* TwoToTwoAll and not as a symbol of the element table, and reports that
\* all elements are valid only when there is none.
C15_ReportsMissingSymbols ==
    (Done /\ vdone >= 1) =>
       /\ vreport.invalid = MissingSymbols(disk)
       /\ vreport.elements = "all_valid" <=> MissingSymbols(disk) = {}

\* C16: checks 6 and 7 of the Verifier report a defect whenever a row of
\* the rebuilt store has, in an element-symbol column of any table, a symbol
\* with a character outside the Latin alphabet or an asterisk; they report
\* clean only when there is no such row.
NonLatin(v) == v \in {CyrillicEn, CyrillicEnIe, CyrillicEs}

AllTableSymbols(s) == UNION {SymbolsOf(s, t) : t \in TableSet}

C16_HygieneReported ==
    /\ (Done /\ vdone >= 6) =>
          (vreport.cyrillic = "none_found" <=> ~\E v \in AllTableSymbols(disk) : NonLatin(v))
    /\ (Done /\ vdone >= 7) =>
          (vreport.asterisk = "none_found" <=> ~\E v \in AllTableSymbols(disk) : HasAsterisk(v))


\* -------------------------------- further claims on parse_html_tables
\* The characters of a path from the file number on: the digits, then ".".
PathCodes(k) == [i \in 1..(Len(k) + 1) |-> IF i <= Len(k) THEN 48 + k[i] ELSE 46]

\* String order of two paths that differ from position i on.
PathBefore(a, b) ==
    \E i \in 1..(Len(a) + 1) :
       /\ i <= Len(b) + 1
       /\ \A j \in 1..(i - 1) : PathCodes(a)[j] = PathCodes(b)[j]
       /\ PathCodes(a)[i] < PathCodes(b)[i]

RowsOfFile(k) == LET r == Parsed(k) IN IF r.isNone THEN <<>> ELSE r.rows

RECURSIVE ConcatRows(_)
ConcatRows(n) == IF n = 0 THEN <<>> ELSE ConcatRows(n - 1) \o RowsOfFile(files[n])

RECURSIVE SumRows(_)
SumRows(n) == IF n = 0 THEN 0 ELSE SumRows(n - 1) + Len(RowsOfFile(files[n]))

\* C17: parse_multi_file_table handles the matching files in the string
\* order of their paths and returns their data rows concatenated in that
\* order, each file's rows in their own order and none removed as a
\* duplicate: the result is as long as the per-file row counts together.
C17_ConcatenatedInPathOrder ==
    ppc \in {"loop", "returned", "finished"} =>
       /\ {files[i] : i \in 1..Len(files)} = {k \in FileKeys : frags[k].matched}
       /\ \A i, j \in 1..Len(files) : i < j => PathBefore(files[i], files[j])
       /\ allRows = ConcatRows(pidx - 1)
       /\ Len(allRows) = SumRows(pidx - 1)
       /\ ppc # "loop" => pidx = Len(files) + 1

C17_Witness ==
    /\ ppc = "returned"
    /\ \E i \in 1..(Len(files) - 1) : files[i] = <<1, 0>> /\ files[i + 1] = <<2>>
    /\ \E m, n \in 1..Len(allRows) :
          /\ m < n
          /\ allRows[m] = allRows[n]
          /\ rowSrc[m] = <<1, 0>> /\ rowSrc[n] = <<2>>


\* ------------------------------------------ further claims on the loaders
CountText(n) == IF n = 0 THEN "0" ELSE Numerals[n]

\* C18: the row count a loader reports equals the number of rows it wrote
\* in that load and the number of data rows of its CSV, for import_csv and
\* for load_fusion_data, load_fission_data and load_twotwo_data, also for a
\* CSV without data rows and for a table that held rows before the load.
C18_ReportedCountIsWritten ==
    /\ \A t \in TableSet :
          imported[t] >= 0 =>
             /\ imported[t] = DataRows(csv[CsvPath(t)])
             /\ imported[t] = Len(disk.rows[t])
    /\ \A t \in SeqToSet(ReactionTables) :
          printed[t] # "" => printed[t] = CountText(Len(Records(csv[BootCsvPath(t)])))


\* C19: once a table has been loaded in a rebuild, no later step of that
\* rebuild and no verification changes its rows: loading another table,
\* building the indexes and the view, rebuild_db.verify_database and
\* verify_db.verify_database, whether or not a check finds a defect.
C19_LoadedRowsUnchanged ==
    [][\A t \in TableSet :
          (imported[t] >= 0 /\ run' = run) => disk'.rows[t] = disk.rows[t]]_vars

C19_Witness ==
    /\ Done
    /\ vdone = Len(VerifierNeeds)
    /\ vreport.elements = "invalid"
    /\ disk.rows["ElementPropertiesPlus"] # <<>>
    /\ \A t \in TableSet : imported[t] = Len(disk.rows[t])

====
